---- MODULE Spec2Model ----
(***************************************************************************)
(* A model of ironhook's two hook engines: the multicast Subject           *)
(* (src/src/subject.ts) and the single-consumer Runner behind run()        *)
(* (src/unnamed/part_002, src/src/run.ts).  The main hook, its effects and *)
(* the observers are user code: their behaviour is an input, drawn from    *)
(* small sets each time such a function is invoked.                        *)
(***************************************************************************)
EXTENDS Integers, Sequences, FiniteSets, TLC

\* ------------------------------------------------------------------ bounds

\* How many non-default things the user code and the environment may do in
\* one behaviour (a setState call, a throw, a stop/complete call, a changed
\* hook-call shape, an unsubscribe, ...).
MaxFuel == 2

\* How many subscribe() calls the environment makes.
MaxSubscribes == 2

\* How many distinct observers exist.
NumObservers == 2

Observers == 1..NumObservers

\* ------------------------------------------------------------------ values

\* JavaScript's undefined, as a main hook's result.
Undefined == -1

\* JavaScript's null, as a main hook's result.
Null == -2

\* A variant of Forwarded that compares with `!=`.
ForwardedLoosely(result) == result \notin {Undefined, Null}

\* Runner.execute: `result !== undefined`.
Forwarded(result) == result # Undefined

NoError == "none"

ShapeErrors == {"NumberOfHookCalls", "OrderOfHookCalls"}

\* A variant of getActive that returns an instance whether or not one is
\* active.
getActiveUnchecked(active) == NoError

\* getActive, for the one instance of the model: 'Hooks can only be called
\* inside the body of ...' unless the instance is the active one.
getActive(active) == IF ~active THEN "OutsideOfHook" ELSE NoError

\* The first statement of the methods useEffect, useState and useMemo:
\* 'Please use the separately exported ... function.' unless the instance is
\* the active one.
CheckActive(active) == IF ~active THEN "UseExported" ELSE NoError

\* Object.is on the values of the model (integers).
ObjectIs(a, b) == a = b

\* A dependency list, or its absence.
NoDeps == [defined |-> FALSE, list |-> <<>>]

Deps(l) == [defined |-> TRUE, list |-> l]

\* A state change: a replacement value, or an updater function of the
\* previous state (previousState => previousState + v), which may throw.
Val(v) == [fn |-> FALSE, v |-> v, throws |-> FALSE]

Add(v) == [fn |-> TRUE, v |-> v, throws |-> FALSE]

Thrower == [fn |-> TRUE, v |-> 0, throws |-> TRUE]

\* As a dependency of a hook call: the setState function the last useState
\* call of this execution returned. The setState function created by the
\* n-th execution of the main hook is SetStateRef + n.
SetStateRef == 100

\* ------------------------------------------------------------ memory cells

StateMemoryCell(state) ==
  [kind |-> "StateMemoryCell", state |-> state, stateChanges |-> <<>>,
   outdated |-> FALSE, effect |-> <<0, 0>>, dependencies |-> NoDeps,
   cleanUpEffect |-> "none", value |-> 0, setState |-> 0]

EffectMemoryCell(effect, dependencies) ==
  [kind |-> "EffectMemoryCell", state |-> 0, stateChanges |-> <<>>,
   outdated |-> TRUE, effect |-> effect, dependencies |-> dependencies,
   cleanUpEffect |-> "none", value |-> 0, setState |-> 0]

MemoMemoryCell(value, dependencies) ==
  [kind |-> "MemoMemoryCell", state |-> 0, stateChanges |-> <<>>,
   outdated |-> FALSE, effect |-> <<0, 0>>, dependencies |-> dependencies,
   cleanUpEffect |-> "none", value |-> value, setState |-> 0]

\* ------------------------------------------------------------- hook calls

StateCall(init, throws) ==
  [kind |-> "StateMemoryCell", init |-> init, throws |-> throws, id |-> 0,
   deps |-> NoDeps]

EffectCall(id, deps) ==
  [kind |-> "EffectMemoryCell", init |-> 0, throws |-> FALSE, id |-> id,
   deps |-> deps]

MemoCall(deps) ==
  [kind |-> "MemoMemoryCell", init |-> 0, throws |-> FALSE, id |-> 0,
   deps |-> deps]

\* areHookInputsEqual(previous, next): element-wise Object.is; a changed
\* existence or number of dependencies is an error; no dependencies at all
\* are never equal.
areHookInputsEqual(a, b) ==
  IF a.defined # b.defined
    THEN [err |-> "ExistenceOfDeps", equal |-> FALSE]
  ELSE IF ~a.defined
    THEN [err |-> NoError, equal |-> FALSE]
  ELSE IF Len(a.list) # Len(b.list)
    THEN [err |-> "NumberOfDeps", equal |-> FALSE]
  ELSE [err |-> NoError,
        equal |-> \A i \in 1..Len(a.list) : ObjectIs(a.list[i], b.list[i])]

\* A variant of getMemoryCell that takes a cell of another kind for no cell.
getMemoryCellOfKind(memory, memoryPointer, memoryAllocated, kind) ==
  LET found == /\ memoryPointer + 1 <= Len(memory)
               /\ memory[memoryPointer + 1].kind = kind
  IN [err |-> NoError, found |-> found]

\* A variant of getMemoryCell that allocates a new cell whenever the memory
\* pointer is past the last one.
getMemoryCellUnchecked(memory, memoryPointer, memoryAllocated, kind) ==
  LET found == memoryPointer + 1 <= Len(memory) IN
  IF found /\ memory[memoryPointer + 1].kind # kind
    THEN [err |-> "OrderOfHookCalls", found |-> TRUE]
  ELSE [err |-> NoError, found |-> found]

\* getMemoryCell(kind): the cell at the memory pointer, checked.
getMemoryCell(memory, memoryPointer, memoryAllocated, kind) ==
  LET found == memoryPointer + 1 <= Len(memory) IN
  IF ~found /\ memoryAllocated
    THEN [err |-> "NumberOfHookCalls", found |-> FALSE]
  ELSE IF found /\ memory[memoryPointer + 1].kind # kind
    THEN [err |-> "OrderOfHookCalls", found |-> TRUE]
  ELSE [err |-> NoError, found |-> found]

\* A variant of useState that makes a new setState function in every call.
useStateRecreated(h, memoryAllocated, call) ==
  LET g == getMemoryCell(h.memory, h.memoryPointer, memoryAllocated,
                         "StateMemoryCell")
      p == h.memoryPointer + 1
  IN
  IF g.err # NoError THEN [h EXCEPT !.err = g.err]
  ELSE IF ~g.found
    THEN IF call.throws
           THEN [h EXCEPT !.err = "InitError", !.inits = @ + 1]
           ELSE [h EXCEPT !.memory =
                            Append(@, [StateMemoryCell(call.init)
                                       EXCEPT !.setState = SetStateRef + h.n]),
                          !.memoryPointer = @ + 1, !.inits = @ + 1,
                          !.setState = SetStateRef + h.n]
  ELSE [h EXCEPT !.memoryPointer = @ + 1,
                 !.memory[p].setState = SetStateRef + h.n,
                 !.setState = SetStateRef + h.n]

\* The three primitive hooks work on h = [memory, memoryPointer, err, n,
\* inits, setState]: inits counts the initial states evaluated, setState is
\* the setState function the last useState call returned.
useState(h, memoryAllocated, call) ==
  LET g == getMemoryCell(h.memory, h.memoryPointer, memoryAllocated,
                         "StateMemoryCell")
      p == h.memoryPointer + 1
  IN
  IF g.err # NoError THEN [h EXCEPT !.err = g.err]
  ELSE IF ~g.found
    THEN IF call.throws
           THEN [h EXCEPT !.err = "InitError", !.inits = @ + 1]
           ELSE [h EXCEPT !.memory =
                            Append(@, [StateMemoryCell(call.init)
                                       EXCEPT !.setState = SetStateRef + h.n]),
                          !.memoryPointer = @ + 1, !.inits = @ + 1,
                          !.setState = SetStateRef + h.n]
  ELSE [h EXCEPT !.memoryPointer = @ + 1,
                 !.setState = h.memory[p].setState]

\* A variant of useEffect that takes dependencies whose existence or number
\* changed for changed dependencies.
useEffectUnchecked(h, memoryAllocated, call, s) ==
  LET g == getMemoryCell(h.memory, h.memoryPointer, memoryAllocated,
                         "EffectMemoryCell")
      p == h.memoryPointer + 1
  IN
  IF g.err # NoError THEN [h EXCEPT !.err = g.err]
  ELSE IF ~g.found
    THEN [h EXCEPT
            !.memory = Append(@, EffectMemoryCell(<<call.id, s>>, call.deps)),
            !.memoryPointer = @ + 1]
  ELSE LET eq == areHookInputsEqual(h.memory[p].dependencies, call.deps) IN
       IF ~eq.equal \/ h.memory[p].outdated
         THEN [h EXCEPT !.memory[p].outdated = TRUE,
                        !.memory[p].effect = <<call.id, s>>,
                        !.memory[p].dependencies = call.deps,
                        !.memoryPointer = @ + 1]
       ELSE [h EXCEPT !.memoryPointer = @ + 1]

\* A variant of useEffect that keeps the effect function and the dependencies
\* of a cell that is still outdated when the dependencies have not changed.
useEffectKeepsOutdated(h, memoryAllocated, call, s) ==
  LET g == getMemoryCell(h.memory, h.memoryPointer, memoryAllocated,
                         "EffectMemoryCell")
      p == h.memoryPointer + 1
  IN
  IF g.err # NoError THEN [h EXCEPT !.err = g.err]
  ELSE IF ~g.found
    THEN [h EXCEPT
            !.memory = Append(@, EffectMemoryCell(<<call.id, s>>, call.deps)),
            !.memoryPointer = @ + 1]
  ELSE LET eq == areHookInputsEqual(h.memory[p].dependencies, call.deps) IN
       IF eq.err # NoError THEN [h EXCEPT !.err = eq.err]
       ELSE IF ~eq.equal
         THEN [h EXCEPT !.memory[p].outdated = TRUE,
                        !.memory[p].effect = <<call.id, s>>,
                        !.memory[p].dependencies = call.deps,
                        !.memoryPointer = @ + 1]
       ELSE [h EXCEPT !.memoryPointer = @ + 1]

useEffect(h, memoryAllocated, call, s) ==
  LET g == getMemoryCell(h.memory, h.memoryPointer, memoryAllocated,
                         "EffectMemoryCell")
      p == h.memoryPointer + 1
  IN
  IF g.err # NoError THEN [h EXCEPT !.err = g.err]
  ELSE IF ~g.found
    THEN [h EXCEPT
            !.memory = Append(@, EffectMemoryCell(<<call.id, s>>, call.deps)),
            !.memoryPointer = @ + 1]
  ELSE LET eq == areHookInputsEqual(h.memory[p].dependencies, call.deps) IN
       IF eq.err # NoError THEN [h EXCEPT !.err = eq.err]
       ELSE IF ~eq.equal \/ h.memory[p].outdated
         THEN [h EXCEPT !.memory[p].outdated = TRUE,
                        !.memory[p].effect = <<call.id, s>>,
                        !.memory[p].dependencies = call.deps,
                        !.memoryPointer = @ + 1]
       ELSE [h EXCEPT !.memoryPointer = @ + 1]

\* A variant of useMemo that calls createValue in every execution.
useMemoAlways(h, memoryAllocated, call, s) ==
  LET g == getMemoryCell(h.memory, h.memoryPointer, memoryAllocated,
                         "MemoMemoryCell")
      p == h.memoryPointer + 1
  IN
  IF g.err # NoError THEN [h EXCEPT !.err = g.err]
  ELSE IF ~g.found
    THEN [h EXCEPT !.memory = Append(@, MemoMemoryCell(h.n, call.deps)),
                   !.memoryPointer = @ + 1]
  ELSE LET eq == areHookInputsEqual(h.memory[p].dependencies, call.deps) IN
       IF eq.err # NoError THEN [h EXCEPT !.err = eq.err]
       ELSE [h EXCEPT !.memory[p].value = h.n,
                      !.memory[p].dependencies = call.deps,
                      !.memoryPointer = @ + 1]

\* createValue is () => the number of the execution that calls it (h.n).
useMemo(h, memoryAllocated, call, s) ==
  LET g == getMemoryCell(h.memory, h.memoryPointer, memoryAllocated,
                         "MemoMemoryCell")
      p == h.memoryPointer + 1
  IN
  IF g.err # NoError THEN [h EXCEPT !.err = g.err]
  ELSE IF ~g.found
    THEN [h EXCEPT !.memory = Append(@, MemoMemoryCell(h.n, call.deps)),
                   !.memoryPointer = @ + 1]
  ELSE LET eq == areHookInputsEqual(h.memory[p].dependencies, call.deps) IN
       IF eq.err # NoError THEN [h EXCEPT !.err = eq.err]
       ELSE IF ~eq.equal
         THEN [h EXCEPT !.memory[p].value = h.n,
                        !.memory[p].dependencies = call.deps,
                        !.memoryPointer = @ + 1]
       ELSE [h EXCEPT !.memoryPointer = @ + 1]

\* The dependencies deps, with setState for every SetStateRef.
Resolve(deps, setState) ==
  [deps EXCEPT !.list = [i \in 1..Len(deps.list) |->
                           IF deps.list[i] = SetStateRef THEN setState
                           ELSE deps.list[i]]]

\* The hook calls `calls` as made when the first cell's setState function is
\* what useState returned.
ResolveCalls(calls, memory) ==
  IF memory = <<>> \/ memory[1].kind # "StateMemoryCell" THEN calls
  ELSE [i \in 1..Len(calls) |->
          [calls[i] EXCEPT !.deps = Resolve(@, memory[1].setState)]]

\* The hook calls of one execution of the main hook, in order, up to the
\* first one that throws.
RECURSIVE HookCalls(_, _, _, _, _)
HookCalls(h, memoryAllocated, calls, i, s) ==
  IF i > Len(calls) \/ h.err # NoError THEN h
  ELSE LET call == [calls[i] EXCEPT !.deps = Resolve(@, h.setState)]
           h1 == IF call.kind = "StateMemoryCell"
                   THEN useState(h, memoryAllocated, call)
                 ELSE IF call.kind = "EffectMemoryCell"
                   THEN useEffect(h, memoryAllocated, call, s)
                 ELSE useMemo(h, memoryAllocated, call, s)
       IN HookCalls(h1, memoryAllocated, calls, i + 1, s)

\* ---------------------------------------------------- applyStateChanges

\* The state of a cell that held `state` after the first n of the state
\* changes: `isFunction(stateChange) ? stateChange(state) : stateChange`.
RECURSIVE StateAfter(_, _, _)
StateAfter(state, stateChanges, n) ==
  IF n = 0 THEN state
  ELSE LET stateChange == stateChanges[n] IN
       IF stateChange.fn
         THEN StateAfter(state, stateChanges, n - 1) + stateChange.v
         ELSE stateChange.v

\* A variant of ApplyCell that reports a change when the state the cell has
\* after all its state changes is not the state it had before them.
ApplyCellNetChange(cell, i, changed) ==
  IF \E j \in 1..Len(cell.stateChanges) :
       cell.stateChanges[j].fn /\ cell.stateChanges[j].throws
    THEN [cell |-> cell, changed |-> changed, err |-> "UpdaterError"]
  ELSE LET state == StateAfter(cell.state, cell.stateChanges,
                               Len(cell.stateChanges))
       IN [cell |-> [cell EXCEPT !.state = state, !.stateChanges = <<>>],
           changed |-> changed \/ ~ObjectIs(cell.state, state),
           err |-> NoError]

\* A variant of ApplyCell that applies the last enqueued change only, to the
\* state the cell had before.
ApplyCellLastOnly(cell, i, changed) ==
  IF cell.stateChanges = <<>>
    THEN [cell |-> cell, changed |-> changed, err |-> NoError]
  ELSE LET stateChange == cell.stateChanges[Len(cell.stateChanges)]
           state == IF stateChange.fn THEN cell.state + stateChange.v
                    ELSE stateChange.v
       IN IF stateChange.fn /\ stateChange.throws
            THEN [cell |-> cell, changed |-> changed, err |-> "UpdaterError"]
            ELSE [cell |-> [cell EXCEPT !.state = state, !.stateChanges = <<>>],
                  changed |-> changed \/ ~(cell.state = state),
                  err |-> NoError]

\* A variant of ApplyCell that reports a change for every state change
\* applied, identical to the state or not.
RECURSIVE ApplyCellNoComparison(_, _, _)
ApplyCellNoComparison(cell, i, changed) ==
  IF i > Len(cell.stateChanges)
    THEN [cell |-> [cell EXCEPT !.stateChanges = <<>>], changed |-> changed,
          err |-> NoError]
  ELSE LET stateChange == cell.stateChanges[i] IN
       IF stateChange.fn /\ stateChange.throws
         THEN [cell |-> cell, changed |-> changed, err |-> "UpdaterError"]
       ELSE LET state == IF stateChange.fn
                           THEN cell.state + stateChange.v
                           ELSE stateChange.v
            IN ApplyCellNoComparison([cell EXCEPT !.state = state], i + 1, TRUE)

\* The inner loop of applyStateChanges over one cell's stateChanges.
RECURSIVE ApplyCell(_, _, _)
ApplyCell(cell, i, changed) ==
  IF i > Len(cell.stateChanges)
    THEN [cell |-> [cell EXCEPT !.stateChanges = <<>>], changed |-> changed,
          err |-> NoError]
  ELSE LET stateChange == cell.stateChanges[i] IN
       IF stateChange.fn /\ stateChange.throws
         THEN [cell |-> cell, changed |-> changed, err |-> "UpdaterError"]
       ELSE LET state == IF stateChange.fn
                           THEN cell.state + stateChange.v
                           ELSE stateChange.v
            IN IF ~ObjectIs(cell.state, state)
                 THEN ApplyCell([cell EXCEPT !.state = state], i + 1, TRUE)
                 ELSE ApplyCell(cell, i + 1, changed)

RECURSIVE ApplyFrom(_, _, _)
ApplyFrom(memory, k, changed) ==
  IF k > Len(memory)
    THEN [memory |-> memory, changed |-> changed, err |-> NoError]
  ELSE IF memory[k].kind # "StateMemoryCell"
    THEN ApplyFrom(memory, k + 1, changed)
  ELSE LET r == ApplyCell(memory[k], 1, changed) IN
       IF r.err # NoError
         THEN [memory |-> [memory EXCEPT ![k] = r.cell],
               changed |-> r.changed, err |-> r.err]
         ELSE ApplyFrom([memory EXCEPT ![k] = r.cell], k + 1, r.changed)

applyStateChanges(memory) == ApplyFrom(memory, 1, FALSE)

\* Some state change of the memory, at the moment it is applied, is not the
\* state its cell then has.
Replaced(memory) ==
  \E k \in 1..Len(memory) :
    /\ memory[k].kind = "StateMemoryCell"
    /\ \E n \in 1..Len(memory[k].stateChanges) :
         ~ObjectIs(StateAfter(memory[k].state, memory[k].stateChanges, n - 1),
                   StateAfter(memory[k].state, memory[k].stateChanges, n))

\* What the call of applyStateChanges() on the instance st did, r being
\* what it returned: restored says that a state was replaced and every cell
\* has the state again it had before; at and results are the numbers of
\* executions and of results forwarded so far.
Applied(st, r) ==
  [replaced |-> Replaced(st.memory),
   restored |-> /\ Replaced(st.memory)
                /\ \A k \in 1..Len(st.memory) :
                     r.memory[k].state = st.memory[k].state,
   changed |-> r.changed, at |-> st.mainHookCalls,
   results |-> Len(st.results)]

\* ------------------------------------------------------- cleanUpEffects

\* A call of the clean-up function of cell k: what the function does, and
\* whether the pass of cleanUpEffects that made the call was forced.
CleanUpCall(k, does, force) == [cell |-> k, does |-> does, forced |-> force]

\* A variant of CleanUpFrom without the try/catch: the first clean-up
\* function that throws ends the loop.
RECURSIVE CleanUpFromUncaught(_, _, _, _, _, _)
CleanUpFromUncaught(memory, force, live, k, calls, threw) ==
  IF k > Len(memory) \/ threw
    THEN [memory |-> memory, calls |-> calls, threw |-> threw]
  ELSE LET memoryCell == memory[k]
           call == CleanUpCall(k, memoryCell.cleanUpEffect, force)
       IN
       IF /\ memoryCell.kind = "EffectMemoryCell"
          /\ (memoryCell.outdated \/ force)
          /\ memoryCell.cleanUpEffect # "none"
         THEN IF memoryCell.cleanUpEffect = "throws"
                THEN CleanUpFromUncaught(memory, force, live, k + 1,
                                         Append(calls, call), TRUE)
              ELSE IF memoryCell.cleanUpEffect = "completes" /\ live
                THEN LET r == CleanUpFromUncaught(memory, TRUE, FALSE, 1,
                                                  Append(calls, call), threw)
                     IN CleanUpFromUncaught(
                          [r.memory EXCEPT ![k].cleanUpEffect = "none"],
                          force, FALSE, k + 1, r.calls, r.threw)
              ELSE CleanUpFromUncaught(
                     [memory EXCEPT ![k].cleanUpEffect = "none"], force, live,
                     k + 1, Append(calls, call), threw)
         ELSE CleanUpFromUncaught(memory, force, live, k + 1, calls, threw)

\* The loop of cleanUpEffects from cell k on; calls: the calls of clean-up
\* functions made so far, in order. A clean-up function that calls
\* complete() on a Subject that has observers (live) runs complete() before
\* it returns: cleanUpEffects(true) from the first cell on, this cell's
\* cleanUpEffect being cleared only after the function has returned.
RECURSIVE CleanUpFrom(_, _, _, _, _, _)
CleanUpFrom(memory, force, live, k, calls, threw) ==
  IF k > Len(memory)
    THEN [memory |-> memory, calls |-> calls, threw |-> threw]
  ELSE LET memoryCell == memory[k]
           call == CleanUpCall(k, memoryCell.cleanUpEffect, force)
       IN
       IF /\ memoryCell.kind = "EffectMemoryCell"
          /\ (memoryCell.outdated \/ force)
          /\ memoryCell.cleanUpEffect # "none"
         THEN IF memoryCell.cleanUpEffect = "completes" /\ live
                THEN LET r == CleanUpFrom(memory, TRUE, FALSE, 1,
                                          Append(calls, call), threw)
                     IN CleanUpFrom(
                          [r.memory EXCEPT ![k].cleanUpEffect = "none"],
                          force, FALSE, k + 1, r.calls, r.threw)
              ELSE CleanUpFrom(
                     [memory EXCEPT ![k].cleanUpEffect = "none"], force, live,
                     k + 1, Append(calls, call),
                     threw \/ memoryCell.cleanUpEffect = "throws")
         ELSE CleanUpFrom(memory, force, live, k + 1, calls, threw)

\* cleanUpEffects(force); live: the instance is a Subject that has observers.
cleanUpEffects(memory, force, live) ==
  CleanUpFrom(memory, force, live, 1, <<>>, FALSE)

\* The calls of clean-up functions that call stop()/complete().
Completing(calls) ==
  LET completes(c) == c.does = "completes" IN SelectSeq(calls, completes)

\* The cells whose clean-up function one pass of cleanUpEffects called more
\* than once.
CalledTwice(calls) ==
  {calls[i].cell : i \in {i \in 1..Len(calls) :
                            \E j \in 1..Len(calls) :
                              j # i /\ calls[j].cell = calls[i].cell}}

\* Some effect cell holds a clean-up function.
HoldsCleanUp(memory) ==
  \E k \in 1..Len(memory) :
    memory[k].kind = "EffectMemoryCell" /\ memory[k].cleanUpEffect # "none"

\* A variant of NextOutdated that takes every effect cell for outdated.
NextEffectCell(memory, k) ==
  LET ks == {j \in k..Len(memory) : memory[j].kind = "EffectMemoryCell"}
  IN IF ks = {} THEN 0 ELSE CHOOSE j \in ks : \A j2 \in ks : j <= j2

\* The first outdated effect cell at or after position k (0: none).
NextOutdated(memory, k) ==
  LET ks == {j \in k..Len(memory) :
               memory[j].kind = "EffectMemoryCell" /\ memory[j].outdated}
  IN IF ks = {} THEN 0 ELSE CHOOSE j \in ks : \A j2 \in ks : j <= j2

\* ---------------------------------------------------------------- user code

\* The main hooks of the model: "worked" is the hook of the tests 'order of
\* setState(), effect(), cleanUpEffect()' and 'sequence of setState, effect,
\* and cleanUpEffect'; "number1", "number2" and "order" are the hooks of the
\* tests 'error if the number of hook calls is changed (1)', '(2)' and 'error
\* if the order of hook calls is changed'; "free" is any hook within the
\* bounds.
Hooks ==
  {"free", "worked", "number1", "number2", "order", "internalStop", "inputs",
   "cleanUp", "outside", "result", "stable", "completing",
   "deps"}

\* The hook calls a "free" main hook may make in one execution.
ShapeNames == {"normal", "fewer", "more", "order", "lazyThrow"}

Shape(name) ==
  CASE name = "normal" ->
         <<StateCall(0, FALSE), EffectCall(1, NoDeps), EffectCall(2, Deps(<<>>))>>
    [] name = "fewer" ->
         <<StateCall(0, FALSE), EffectCall(1, NoDeps)>>
    [] name = "more" ->
         <<StateCall(0, FALSE), EffectCall(1, NoDeps), EffectCall(2, Deps(<<>>)),
           EffectCall(3, NoDeps)>>
    [] name = "order" ->
         <<StateCall(0, FALSE), StateCall(0, FALSE), EffectCall(2, Deps(<<>>))>>
    [] name = "lazyThrow" ->
         <<StateCall(0, TRUE), EffectCall(1, NoDeps), EffectCall(2, Deps(<<>>))>>

\* The setState calls user code may make when the state it knows is s.
Alphabet(s) == {Val(s), Val(s + 1), Add(1), Add(0), Thrower}

\* The sequences of at most two setState calls that cost at most f.
SetSeqs(s, f) ==
  {<<>>} \cup (IF f >= 1 THEN {<<a>> : a \in Alphabet(s)} ELSE {})
         \cup (IF f >= 2 THEN {<<a, b>> : a \in Alphabet(s), b \in Alphabet(s)}
               ELSE {})

\* The truth values of a flag that costs one when set.
Flags(f) == IF f >= 1 THEN BOOLEAN ELSE {FALSE}

Cost(flag) == IF flag THEN 1 ELSE 0

\* Which observer's complete() callback throws, if any.
Throwers == {{}} \cup {{o} : o \in Observers}

\* One execution of the body of the main hook, the state it reads being s:
\* its hook calls, then an optional stop()/complete(), its setState calls, an
\* optional throw, and its result.
WorkedBody(s) ==
  [calls |-> <<StateCall(0, FALSE), EffectCall(1, NoDeps),
               EffectCall(2, Deps(<<>>)), EffectCall(3, NoDeps),
               EffectCall(4, NoDeps)>>,
   stop |-> FALSE,
   sets |-> IF s < 1 THEN <<Val(1)>>
            ELSE IF s = 2 THEN <<Val(3), Add(1)>> ELSE <<>>,
   throws |-> FALSE, result |-> s, cost |-> 0]

\* The hooks of the three shape tests: what they call depends on the state.
ShapeTestBody(h, s) ==
  [calls |->
     CASE h = "number1" ->
            IF s = 0 THEN <<StateCall(0, FALSE), EffectCall(1, NoDeps)>>
            ELSE <<StateCall(0, FALSE)>>
       [] h = "number2" ->
            IF s = 0 THEN <<StateCall(0, FALSE)>>
            ELSE <<StateCall(0, FALSE), EffectCall(1, NoDeps)>>
       [] h = "order" ->
            IF s = 0 THEN <<StateCall(0, FALSE), EffectCall(1, NoDeps)>>
            ELSE <<StateCall(0, FALSE), StateCall(0, FALSE)>>,
   stop |-> FALSE,
   sets |-> IF s = 0 THEN <<Val(1)>> ELSE <<>>,
   throws |-> FALSE, result |-> s, cost |-> 0]

\* The hook that calls stop() in its body; its effect sets the state to 1.
InternalStopBody(s) ==
  [calls |-> <<StateCall(0, FALSE), EffectCall(1, NoDeps)>>,
   stop |-> TRUE, sets |-> <<>>, throws |-> FALSE, result |-> s, cost |-> 0]

InternalStopEffect ==
  [stop |-> FALSE, sets |-> <<Val(1)>>, throws |-> FALSE, cleanup |-> "ok",
   hook |-> FALSE, cost |-> 0]

\* The hook of the test 'different hook inputs' ('a', 'b', 'c' are 1, 2, 3)
\* and its first effect.
InputsBody(s) ==
  [calls |-> <<StateCall(0, FALSE), EffectCall(1, NoDeps),
               EffectCall(2, Deps(<<>>)),
               EffectCall(3, Deps(IF s = 0 THEN <<1, 2, 3>> ELSE <<1, 3, 2>>)),
               EffectCall(4, NoDeps)>>,
   stop |-> FALSE, sets |-> <<>>, throws |-> FALSE, result |-> s, cost |-> 0]

InputsEffect(id, s) ==
  [stop |-> FALSE, sets |-> IF id = 1 /\ s < 2 THEN <<Add(1)>> ELSE <<>>,
   throws |-> FALSE, cleanup |-> "none", hook |-> FALSE, cost |-> 0]

\* The hook of the test 'failing cleanUpEffect()', with a state in front of
\* its two effects so that it can be executed again; the clean-up function
\* of its first effect throws.
CleanUpBody(s) ==
  [calls |-> <<StateCall(0, FALSE), EffectCall(1, NoDeps),
               EffectCall(2, NoDeps)>>,
   stop |-> FALSE, sets |-> <<>>, throws |-> FALSE, result |-> s, cost |-> 0]

CleanUpEffect(id) ==
  [stop |-> FALSE, sets |-> <<>>, throws |-> FALSE,
   cleanup |-> IF id = 1 THEN "throws" ELSE "ok", hook |-> FALSE,
   cost |-> 0]

\* The hook of the tests 'error if an effect hook / a state hook is called
\* outside the body of a parent hook', and its effect, which calls a hook.
OutsideBody ==
  [calls |-> <<EffectCall(1, NoDeps)>>, stop |-> FALSE, sets |-> <<>>,
   throws |-> FALSE, result |-> 0, cost |-> 0]

OutsideEffect ==
  [stop |-> FALSE, sets |-> <<>>, throws |-> FALSE, cleanup |-> "none",
   hook |-> TRUE, cost |-> 0]

\* The hook of the tests 'single run with result' and 'single run without
\* result', with a state to return other results: undefined first, then
\* null, then the state itself.
ResultBody(s) ==
  [calls |-> <<StateCall(0, FALSE)>>, stop |-> FALSE, sets |-> <<>>,
   throws |-> FALSE,
   result |-> IF s = 0 THEN Undefined ELSE IF s = 1 THEN Null ELSE s,
   cost |-> 0]

\* The hook of the test 'stable setState() identity' and its effect.
StableBody(s) ==
  [calls |-> <<StateCall(0, FALSE), EffectCall(1, Deps(<<SetStateRef>>))>>,
   stop |-> FALSE, sets |-> <<>>, throws |-> FALSE, result |-> s, cost |-> 0]

StableEffect ==
  [stop |-> FALSE, sets |-> <<Add(1)>>, throws |-> FALSE, cleanup |-> "none",
   hook |-> FALSE, cost |-> 0]

\* A hook whose effect returns a clean-up function that calls complete() on
\* the Subject (stop() on the RunningHook); the effect sets the state once,
\* so that a second commit cleans it up.
CompletingBody(s) ==
  [calls |-> <<StateCall(0, FALSE), EffectCall(1, NoDeps)>>,
   stop |-> FALSE, sets |-> <<>>, throws |-> FALSE, result |-> s, cost |-> 0]

CompletingEffect(s) ==
  [stop |-> FALSE, sets |-> IF s = 0 THEN <<Val(1)>> ELSE <<>>,
   throws |-> FALSE, cleanup |-> "completes", hook |-> FALSE, cost |-> 0]

\* The dependencies a "deps" main hook may pass to its effect and its memo.
EffectDeps == {NoDeps, Deps(<<>>), Deps(<<0>>), Deps(<<1>>)}

MemoDeps == {Deps(<<>>), Deps(<<0>>), Deps(<<1>>)}

\* A main hook whose hook calls are the same in every execution, with
\* dependencies of its choice; it may set the state to another value. What
\* it does beyond passing [0] and returning is counted against the fuel.
DepsBodies(s, f) ==
  LET all == {[calls |-> <<StateCall(0, FALSE), EffectCall(1, d1),
                           MemoCall(d2)>>,
               stop |-> FALSE, sets |-> ss, throws |-> FALSE, result |-> s,
               cost |-> Len(ss) + Cost(d1 # Deps(<<0>>))
                          + Cost(d2 # Deps(<<0>>))] :
                d1 \in EffectDeps, d2 \in MemoDeps,
                ss \in {<<>>, <<Val(s + 1)>>}}
  IN {b \in all : b.cost <= f}

FreeBodies(s, f) ==
  {b \in {[calls |-> Shape(sh), stop |-> st, sets |-> ss, throws |-> th,
           result |-> IF un THEN Undefined ELSE s,
           cost |-> Cost(sh # "normal") + Cost(st) + Len(ss) + Cost(th)
                    + Cost(un)] :
            sh \in (IF f >= 1 THEN ShapeNames ELSE {"normal"}),
            st \in Flags(f), ss \in SetSeqs(s, f), th \in Flags(f),
            un \in Flags(f)} :
     b.cost <= f}

Bodies(h, s, f) ==
  IF h = "worked" THEN {WorkedBody(s)}
  ELSE IF h = "free" THEN FreeBodies(s, f)
  ELSE IF h = "internalStop" THEN {InternalStopBody(s)}
  ELSE IF h = "inputs" THEN {InputsBody(s)}
  ELSE IF h = "cleanUp" THEN {CleanUpBody(s)}
  ELSE IF h = "outside" THEN {OutsideBody}
  ELSE IF h = "result" THEN {ResultBody(s)}
  ELSE IF h = "stable" THEN {StableBody(s)}
  ELSE IF h = "completing" THEN {CompletingBody(s)}
  ELSE IF h = "deps" THEN DepsBodies(s, f)
  ELSE {ShapeTestBody(h, s)}

\* One invocation of the effect function <<id, s>> (s: the state of the
\* execution that passed it to useEffect).
WorkedEffect(id, s) ==
  [stop |-> FALSE,
   sets |-> IF id = 1 /\ s = 1 THEN <<Val(2)>> ELSE <<>>,
   throws |-> id = 3 /\ s = 4, cleanup |-> "ok", hook |-> FALSE, cost |-> 0]

FreeEffects(s, f) ==
  {e \in {[stop |-> st, sets |-> ss, throws |-> th, cleanup |-> cl,
           hook |-> FALSE,
           cost |-> Cost(st) + Len(ss) + Cost(th) + Cost(cl # "ok")] :
            st \in Flags(f), ss \in SetSeqs(s, f), th \in Flags(f),
            cl \in (IF f >= 1 THEN {"ok", "none", "throws"} ELSE {"ok"})} :
     e.cost <= f}

\* The effects of the shape tests are jest.fn(): they return nothing.
MockEffect ==
  [stop |-> FALSE, sets |-> <<>>, throws |-> FALSE, cleanup |-> "none",
   hook |-> FALSE, cost |-> 0]

Effects(h, effect, f) ==
  IF h = "worked" THEN {WorkedEffect(effect[1], effect[2])}
  ELSE IF h = "free" THEN FreeEffects(effect[2], f)
  ELSE IF h = "internalStop" THEN {InternalStopEffect}
  ELSE IF h = "inputs" THEN {InputsEffect(effect[1], effect[2])}
  ELSE IF h = "cleanUp" THEN {CleanUpEffect(effect[1])}
  ELSE IF h = "outside" THEN {OutsideEffect}
  ELSE IF h = "stable" THEN {StableEffect}
  ELSE IF h = "completing" THEN {CompletingEffect(effect[2])}
  ELSE {MockEffect}

\* What a callback of the consumer (observer.next, observer.error, onResult)
\* does: return, throw, or call complete()/stop().
Callbacks(f) == IF f = 0 THEN {"ok"} ELSE {"ok", "throw", "stop"}

\* What an observer's callback does: as Callbacks, or it calls the
\* Unsubscribe function of an observer that has subscribed.
ObserverCallbacks(f, subscribed) ==
  {[does |-> d, o |-> 0] : d \in Callbacks(f)} \cup
    (IF f = 0 THEN {}
     ELSE {[does |-> "unsubscribe", o |-> o] : o \in subscribed})

\* An observer that is subscribed, or never was.
NotGone == [on |-> FALSE, next |-> 0, error |-> 0, complete |-> 0]

\* The kinds of the cells of a memory, in order.
Kinds(cells) == [i \in 1..Len(cells) |-> cells[i].kind]

\* No commit is in progress.
NoCommit == [outdated |-> {}, held |-> {}, log |-> <<>>, ran |-> <<>>]

\* memoryCell.effect() of cell k: the effect function that was called.
Ran(k, effect) == [cell |-> k, effect |-> effect]

\* The outdated effect cells of a memory.
Outdated(cells) ==
  {k \in 1..Len(cells) :
     cells[k].kind = "EffectMemoryCell" /\ cells[k].outdated}

\* The call of the clean-up function, or of the effect function, of cell k.
Called(phase, k) == [phase |-> phase, cell |-> k]

\* The effect functions of the main hooks, as EffectCall names them.
EffectIds == 1..4

\* --------------------------------------------------------------------- state

VARIABLES
  mode,              \* "Subject" or "Runner": which engine this instance is
  hook,              \* the main hook
  fuel,              \* what is left of MaxFuel
  subscribes,        \* subscribe() calls made
  handles,           \* observers holding an Unsubscribe function
  memory, memoryAllocated, memoryPointer,
  active,            \* Subject.active / Runner.active is this instance
  pc,                \* position of the task in progress ("idle": none)
  idx,               \* position of the loop in progress
  iter,              \* the observers a for-of loop in progress iterates
  value,             \* the result of the last execution of the main hook
  thrown,            \* the error propagating out of the invocation loop
  observers,         \* Subject.observers: a Set in insertion order, or undefined
  pendingRuns,       \* Subject.run: microtasks queued and not yet run
  completionResolved,\* calls of Subject.resolveCompletion
  taskDestroyed,     \* the Subject had no observers set when this task began
  started,           \* run() has been called
  stopped, running,  \* Runner.stopped, Runner.running
  macrotasks,        \* Runner.scheduleRun: macrotasks queued and not yet run
  microtasks,        \* Runner: queued promise reactions
  promise,           \* RunningHook.promise
  promiseError,
  \* what has happened so far
  mainHookCalls, effectCalls, cleanUpCalls, forcedCleanUps, setStateCalls,
  stopCalls, results, nextCalls, errorCalls, errorValue, completeCalls,
  onStoppedCalls, settleCalls, consoleErrors,
  heldAtSignal,      \* a terminal callback ran while a clean-up was still held
  afterDestroyed,    \* user code ran in a task begun after the Subject ended
  late,              \* observers that subscribed after the Subject ended
  lateCalls,         \* callbacks to an observer after it subscribed late
  onlySelfSets,      \* every setState so far set a state to itself
  shadow,            \* first state cell: all setState calls applied in order
  fatal,             \* the first error thrown out of the invocation loop
  callsAtFatal,      \* mainHookCalls when that error was thrown
  swallowed,         \* Runner.stop(error) found the Runner stopped already
  resultsAtStop,     \* Len(results) when onStopped was called
  nextAfterError,    \* an observer's next() was called after its error()
  shapeChange,       \* the error an execution's changed hook calls call for
  subscribedAtFatal, \* the observers subscribed when the catch block began
  skipped,           \* of these, unsubscribed by a callback before their turn
  idleStop,          \* stop() was called between two tasks, and the counters then
  stoppedAtThrow,    \* stop() had been called when the fatal error was thrown
  onResultThrew,     \* the onResult callback of the Runner has thrown
  nextDue,           \* the observers, in order, when the last execution returned
  nextBase,          \* nextCalls when the last execution returned
  nextLog,           \* the observers whose next() that execution has called
  nextSkipped,       \* of nextDue, unsubscribed by a callback before their turn
  valuesLog,         \* the values the executions of the main hook returned
  effectCallsOf,     \* how often the effect function of each useEffect ran
  depsLog,           \* in the state an execution that reused its cells leaves:
                     \* per hook call, the dependencies held and passed, and
                     \* what became of the cell
  depsChange,        \* the error an execution's changed dependencies call for
  taskBegun,         \* a deferred task of the instance has begun
  endedEarly,        \* stop()/complete() was called before any task began
  gone,              \* per observer whose Unsubscribe function was called last: the
                     \* callbacks it had received by then
  threw,             \* the observers whose callback threw in the loop in progress
  usageErrors,       \* hook methods called on the instance from outside that threw
  stale,             \* applying the state changes changed a state that no delivered execution has read
  initCalls,         \* how often an initial state was evaluated (a lazy initializer invoked)
  commit,            \* the commit in progress: the cells outdated and the cells
                     \* holding a clean-up when it began, and its calls in order
  allocated,         \* the kinds of the memory cells, in order, when memoryAllocated was set
  alternation,       \* the effect cells whose clean-up function was called twice
                     \* for one run of the effect, and those whose effect ran
                     \* while the cell held a clean-up function
  nextAfterComplete, \* an observer's next() was called after its complete()
  supplied,          \* per cell, the effect and the dependencies the latest
                     \* useEffect call was passed
  applied            \* the last applyStateChanges() that returned: what it
                     \* did and what it reported

vars ==
  <<mode, hook, fuel, subscribes, handles, memory, memoryAllocated,
    memoryPointer, active, pc, idx, iter, value, thrown, observers,
    pendingRuns, completionResolved, taskDestroyed, started, stopped, running,
    macrotasks, microtasks, promise, promiseError, mainHookCalls, effectCalls,
    cleanUpCalls, forcedCleanUps, setStateCalls, stopCalls, results,
    nextCalls, errorCalls, errorValue, completeCalls, onStoppedCalls,
    settleCalls, consoleErrors, heldAtSignal, afterDestroyed, late, lateCalls,
    onlySelfSets, shadow, fatal, callsAtFatal, swallowed, resultsAtStop,
    nextAfterError, shapeChange, subscribedAtFatal, skipped, idleStop,
    stoppedAtThrow, onResultThrew, nextDue, nextBase, nextLog, nextSkipped,
    valuesLog, effectCallsOf, depsLog, depsChange, taskBegun, endedEarly,
    gone,
    threw,
    usageErrors,
    stale,
    initCalls,
    commit,
    allocated,
    alternation,
    nextAfterComplete,
    supplied,
    applied>>

\* The current state as a record: what a handler reads and, field by field,
\* rewrites.
Cur ==
  [mode |-> mode, hook |-> hook, fuel |-> fuel, subscribes |-> subscribes,
   handles |-> handles, memory |-> memory,
   memoryAllocated |-> memoryAllocated, memoryPointer |-> memoryPointer,
   active |-> active, pc |-> pc, idx |-> idx, iter |-> iter, value |-> value,
   thrown |-> thrown, observers |-> observers, pendingRuns |-> pendingRuns,
   completionResolved |-> completionResolved,
   taskDestroyed |-> taskDestroyed, started |-> started, stopped |-> stopped,
   running |-> running, macrotasks |-> macrotasks, microtasks |-> microtasks,
   promise |-> promise, promiseError |-> promiseError,
   mainHookCalls |-> mainHookCalls, effectCalls |-> effectCalls,
   cleanUpCalls |-> cleanUpCalls, forcedCleanUps |-> forcedCleanUps,
   setStateCalls |-> setStateCalls, stopCalls |-> stopCalls,
   results |-> results, nextCalls |-> nextCalls, errorCalls |-> errorCalls,
   errorValue |-> errorValue, completeCalls |-> completeCalls,
   onStoppedCalls |-> onStoppedCalls, settleCalls |-> settleCalls,
   consoleErrors |-> consoleErrors, heldAtSignal |-> heldAtSignal,
   afterDestroyed |-> afterDestroyed, late |-> late, lateCalls |-> lateCalls,
   onlySelfSets |-> onlySelfSets, shadow |-> shadow, fatal |-> fatal,
   callsAtFatal |-> callsAtFatal, swallowed |-> swallowed,
   resultsAtStop |-> resultsAtStop, nextAfterError |-> nextAfterError,
   shapeChange |-> shapeChange, subscribedAtFatal |-> subscribedAtFatal,
   skipped |-> skipped, idleStop |-> idleStop,
   stoppedAtThrow |-> stoppedAtThrow, onResultThrew |-> onResultThrew,
   nextDue |-> nextDue, nextBase |-> nextBase, nextLog |-> nextLog,
   nextSkipped |-> nextSkipped, valuesLog |-> valuesLog,
   effectCallsOf |-> effectCallsOf, depsLog |-> depsLog,
   depsChange |-> depsChange, taskBegun |-> taskBegun,
   endedEarly |-> endedEarly,
   gone |-> gone,
   threw |-> threw,
   usageErrors |-> usageErrors,
   stale |-> stale,
   initCalls |-> initCalls,
   commit |-> commit,
   allocated |-> allocated,
   alternation |-> alternation,
   nextAfterComplete |-> nextAfterComplete,
   supplied |-> supplied,
   applied |-> applied]

Commit(st) ==
  /\ mode' = st.mode /\ hook' = st.hook /\ fuel' = st.fuel
  /\ subscribes' = st.subscribes /\ handles' = st.handles
  /\ memory' = st.memory /\ memoryAllocated' = st.memoryAllocated
  /\ memoryPointer' = st.memoryPointer /\ active' = st.active
  /\ pc' = st.pc /\ idx' = st.idx /\ iter' = st.iter /\ value' = st.value
  /\ thrown' = st.thrown /\ observers' = st.observers
  /\ pendingRuns' = st.pendingRuns
  /\ completionResolved' = st.completionResolved
  /\ taskDestroyed' = st.taskDestroyed /\ started' = st.started
  /\ stopped' = st.stopped /\ running' = st.running
  /\ macrotasks' = st.macrotasks /\ microtasks' = st.microtasks
  /\ promise' = st.promise /\ promiseError' = st.promiseError
  /\ mainHookCalls' = st.mainHookCalls /\ effectCalls' = st.effectCalls
  /\ cleanUpCalls' = st.cleanUpCalls /\ forcedCleanUps' = st.forcedCleanUps
  /\ setStateCalls' = st.setStateCalls /\ stopCalls' = st.stopCalls
  /\ results' = st.results /\ nextCalls' = st.nextCalls
  /\ errorCalls' = st.errorCalls /\ errorValue' = st.errorValue
  /\ completeCalls' = st.completeCalls /\ onStoppedCalls' = st.onStoppedCalls
  /\ settleCalls' = st.settleCalls /\ consoleErrors' = st.consoleErrors
  /\ heldAtSignal' = st.heldAtSignal /\ afterDestroyed' = st.afterDestroyed
  /\ late' = st.late /\ lateCalls' = st.lateCalls
  /\ onlySelfSets' = st.onlySelfSets /\ shadow' = st.shadow
  /\ fatal' = st.fatal /\ callsAtFatal' = st.callsAtFatal
  /\ swallowed' = st.swallowed /\ resultsAtStop' = st.resultsAtStop
  /\ nextAfterError' = st.nextAfterError /\ shapeChange' = st.shapeChange
  /\ subscribedAtFatal' = st.subscribedAtFatal /\ skipped' = st.skipped
  /\ idleStop' = st.idleStop /\ stoppedAtThrow' = st.stoppedAtThrow
  /\ onResultThrew' = st.onResultThrew
  /\ nextDue' = st.nextDue /\ nextBase' = st.nextBase
  /\ nextLog' = st.nextLog /\ nextSkipped' = st.nextSkipped
  /\ valuesLog' = st.valuesLog /\ effectCallsOf' = st.effectCallsOf
  /\ depsLog' = IF st.mainHookCalls # mainHookCalls THEN st.depsLog ELSE <<>>
  /\ depsChange' = st.depsChange
  /\ taskBegun' = st.taskBegun /\ endedEarly' = st.endedEarly
  /\ gone' = st.gone
  /\ threw' = st.threw
  /\ usageErrors' = st.usageErrors
  /\ stale' = st.stale
  /\ initCalls' = st.initCalls
  /\ commit' = IF st.pc \in {"trigger", "loop", "catch"} THEN st.commit
                ELSE NoCommit
  /\ allocated' = st.allocated
  /\ alternation' = st.alternation
  /\ nextAfterComplete' = st.nextAfterComplete
  /\ supplied' = st.supplied
  /\ applied' = st.applied

NoObservers == [defined |-> FALSE, list |-> <<>>]

Init ==
  /\ mode \in {"Subject", "Runner"} /\ hook \in Hooks /\ fuel = MaxFuel
  \* the hooks of the tests of index.test.ts are run as it runs them, but
  \* for the worked example, the hook that calls a hook in its effect and
  \* the hook whose clean-up function completes, which part_004 runs as
  \* well; a Subject changes the shape of its hook calls with the hook "free"
  /\ hook \notin {"free", "worked", "internalStop", "outside", "completing"}
       => mode = "Runner"
  /\ subscribes = 0 /\ handles = {}
  /\ memory = <<>> /\ memoryAllocated = FALSE /\ memoryPointer = 0
  /\ active = FALSE /\ pc = "idle" /\ idx = 0 /\ iter = <<>>
  /\ value = Undefined /\ thrown = NoError
  /\ observers = [defined |-> TRUE, list |-> <<>>]
  /\ pendingRuns = 0 /\ completionResolved = 0 /\ taskDestroyed = FALSE
  /\ started = FALSE /\ stopped = FALSE /\ running = FALSE
  /\ macrotasks = 0 /\ microtasks = <<>>
  /\ promise = "pending" /\ promiseError = NoError
  /\ mainHookCalls = 0 /\ effectCalls = 0 /\ cleanUpCalls = 0
  /\ forcedCleanUps = 0 /\ setStateCalls = 0 /\ stopCalls = 0
  /\ results = <<>>
  /\ nextCalls = [o \in Observers |-> <<>>]
  /\ errorCalls = [o \in Observers |-> 0]
  /\ errorValue = [o \in Observers |-> NoError]
  /\ completeCalls = [o \in Observers |-> 0]
  /\ onStoppedCalls = 0 /\ settleCalls = 0 /\ consoleErrors = {}
  /\ heldAtSignal = FALSE /\ afterDestroyed = FALSE
  /\ late = {} /\ lateCalls = FALSE
  /\ onlySelfSets = TRUE /\ shadow = 0
  /\ fatal = NoError /\ callsAtFatal = 0 /\ swallowed = FALSE
  /\ resultsAtStop = 0 /\ nextAfterError = FALSE /\ shapeChange = NoError
  /\ subscribedAtFatal = {} /\ skipped = {}
  /\ idleStop = [called |-> FALSE, mainHookCalls |-> 0, results |-> 0,
                 effectCalls |-> 0]
  /\ stoppedAtThrow = FALSE /\ onResultThrew = FALSE
  /\ nextDue = <<>> /\ nextBase = [o \in Observers |-> <<>>]
  /\ nextLog = <<>> /\ nextSkipped = {} /\ valuesLog = <<>>
  /\ effectCallsOf = [id \in EffectIds |-> 0]
  /\ depsLog = <<>> /\ depsChange = NoError
  /\ taskBegun = FALSE /\ endedEarly = FALSE
  /\ gone = [o \in Observers |-> NotGone]
  /\ threw = {}
  /\ usageErrors = 0
  /\ stale = FALSE
  /\ initCalls = 0
  /\ commit = NoCommit
  /\ allocated = <<>>
  /\ alternation = [twice |-> {}, held |-> {}]
  /\ nextAfterComplete = FALSE
  /\ supplied = <<>>
  /\ applied = [replaced |-> FALSE, restored |-> FALSE, changed |-> FALSE,
                at |-> 0, results |-> 0]

\* ------------------------------------------------- what handlers call inline

\* An error leaves execute()/run(): the finally block clears the active
\* instance and the error propagates to the catch of the task.
Fail(st, error) ==
  [st EXCEPT !.thrown = error, !.pc = "catch", !.active = FALSE,
             !.fatal = IF @ = NoError THEN error ELSE @,
             !.callsAtFatal = IF st.fatal = NoError THEN st.mainHookCalls
                              ELSE @,
             !.stoppedAtThrow = IF st.fatal = NoError THEN st.stopped ELSE @]

\* Subject.run(): queue the invocation loop as a microtask.
SubjectRun(st) == [st EXCEPT !.pendingRuns = @ + 1]

\* A variant of scheduleRun that starts the invocation loop at once.
scheduleRunNow(st) ==
  IF st.running THEN st ELSE [st EXCEPT !.running = TRUE, !.pc = "execute"]

\* Runner.scheduleRun(): queue the invocation loop as a macrotask unless the
\* loop is in flight.
scheduleRun(st) ==
  IF st.running THEN st ELSE [st EXCEPT !.macrotasks = @ + 1]

\* A variant of setState that replaces the state at once.
setStateAtOnce(st, stateChange) ==
  LET st1 == [st EXCEPT
                !.memory[1].state = IF stateChange.throws THEN @
                                    ELSE IF stateChange.fn THEN @ + stateChange.v
                                    ELSE stateChange.v,
                !.setStateCalls = @ + 1,
                !.onlySelfSets = FALSE,
                !.shadow = IF stateChange.throws THEN @
                           ELSE IF stateChange.fn THEN @ + stateChange.v
                           ELSE stateChange.v]
  IN IF st.mode = "Subject" THEN SubjectRun(st1) ELSE scheduleRun(st1)

\* A variant of setState that enqueues the change and schedules nothing.
setStateUnscheduled(st, stateChange) ==
  [st EXCEPT !.memory[1].stateChanges = Append(@, stateChange),
             !.setStateCalls = @ + 1,
             !.onlySelfSets = FALSE,
             !.shadow = IF stateChange.throws THEN @
                        ELSE IF stateChange.fn THEN @ + stateChange.v
                        ELSE stateChange.v]

\* The setState function of the first state cell, called with stateChange.
setState(st, stateChange) ==
  LET cur == st.memory[1].state
      self == /\ ~stateChange.throws
              /\ IF stateChange.fn THEN stateChange.v = 0
                                   ELSE stateChange.v = cur
      st1 == [st EXCEPT
                !.memory[1].stateChanges = Append(@, stateChange),
                !.setStateCalls = @ + 1,
                !.onlySelfSets = @ /\ self,
                !.shadow = IF stateChange.throws THEN @
                           ELSE IF stateChange.fn THEN @ + stateChange.v
                           ELSE stateChange.v]
  IN IF st.mode = "Subject" THEN SubjectRun(st1) ELSE scheduleRun(st1)

RECURSIVE SetStates(_, _, _)
SetStates(st, sets, i) ==
  IF i > Len(sets) THEN st ELSE SetStates(setState(st, sets[i]), sets, i + 1)

\* A stop()/complete() called by a clean-up function acts before the
\* function returns: the instance is a Subject that has its observers.
Live(st) == st.mode = "Subject" /\ st.observers.defined

\* Subject.complete() up to `this.observers = undefined`: the loop over the
\* observers; cthr: the observers whose complete() throws.
CompleteSignal(st, cthr) ==
  LET l == st.observers.list
      in(o) == \E i \in 1..Len(l) : l[i] = o
  IN [st EXCEPT
        !.stopCalls = @ + 1,
        !.completeCalls = [o \in Observers |-> @[o] + Cost(in(o))],
        !.lateCalls = @ \/ \E o \in st.late : in(o),
        !.heldAtSignal = @ \/ (l # <<>> /\ HoldsCleanUp(st.memory)),
        !.consoleErrors =
           IF \E o \in cthr : in(o) THEN @ \cup {"completing"} ELSE @,
        !.observers = NoObservers]

\* n calls of Runner.stop() without an error, as clean-up functions make
\* them.
RECURSIVE Stops(_, _)
Stops(st, n) ==
  IF n = 0 THEN st
  ELSE Stops([st EXCEPT
                !.stopCalls = @ + 1, !.stopped = TRUE,
                !.microtasks =
                   IF st.stopped THEN @
                   ELSE Append(@, [kind |-> "stop", error |-> NoError])],
             n - 1)

\* The instance after the pass r of cleanUpEffects over the memory of st:
\* the clean-up functions have been called, and what they called has acted
\* (of the complete() calls on a Subject the first, if it has observers: the
\* pass r includes the forced clean-up of that call).
AfterCleanUp(st, r) ==
  LET n == Len(Completing(r.calls))
      st0 == IF n > 0 /\ Live(st)
               THEN [CompleteSignal(st, {})
                     EXCEPT !.stopCalls = @ + (n - 1),
                            !.forcedCleanUps = @ + 1,
                            !.completionResolved = @ + 1]
             ELSE IF st.mode = "Runner" THEN Stops(st, n)
             ELSE [st EXCEPT !.stopCalls = @ + n]
  IN [st0 EXCEPT
        !.memory = r.memory, !.cleanUpCalls = @ + Len(r.calls),
        !.alternation.twice = @ \cup CalledTwice(r.calls),
        !.consoleErrors = IF r.threw THEN @ \cup {"cleaning up effect"}
                          ELSE @]

\* A variant of ForceCleanUp that cleans up the outdated effects only.
ForceCleanUpOutdatedOnly(st) ==
  LET r == cleanUpEffects(st.memory, FALSE, Live(st)) IN
  [AfterCleanUp(st, r) EXCEPT !.forcedCleanUps = @ + 1]

\* cleanUpEffects(true), as stop(), complete() and the catch block call it.
ForceCleanUp(st) ==
  LET r == cleanUpEffects(st.memory, TRUE, Live(st)) IN
  [AfterCleanUp(st, r) EXCEPT !.forcedCleanUps = @ + 1]

\* Subject.complete(); cthr: the observers whose complete() throws.
complete(st, cthr) ==
  IF ~st.observers.defined THEN [st EXCEPT !.stopCalls = @ + 1]
  ELSE [ForceCleanUp(CompleteSignal(st, cthr))
        EXCEPT !.completionResolved = @ + 1]

\* A variant of stop that never passes the error on.
stopDropsError(st, error) ==
  IF st.stopped THEN [st EXCEPT !.stopCalls = @ + 1]
  ELSE [st EXCEPT !.stopCalls = @ + 1, !.stopped = TRUE,
                  !.microtasks = Append(@, [kind |-> "stop",
                                            error |-> NoError])]

\* A variant of stop whose `stopped` guard lets a call with an error pass.
stopErrorsPass(st, error) ==
  IF st.stopped /\ error = NoError THEN [st EXCEPT !.stopCalls = @ + 1]
  ELSE [st EXCEPT !.stopCalls = @ + 1, !.stopped = TRUE,
                  !.microtasks = Append(@, [kind |-> "stop", error |-> error])]

\* A variant of stop without the `stopped` guard.
stopUnguarded(st, error) ==
  [st EXCEPT !.stopCalls = @ + 1, !.stopped = TRUE,
             !.microtasks = Append(@, [kind |-> "stop", error |-> error])]

\* Runner.stop(error): the clean-up and onStopped happen in a microtask.
stop(st, error) ==
  IF st.stopped THEN [st EXCEPT !.stopCalls = @ + 1]
  ELSE [st EXCEPT !.stopCalls = @ + 1, !.stopped = TRUE,
                  !.microtasks = Append(@, [kind |-> "stop", error |-> error])]

\* The Unsubscribe function of observer o; the loop over the observers that
\* is in progress (iter, visited up to position idx - 1) is over the same
\* Set and skips an observer deleted before its turn.
\* The callbacks observer o has received in st.
Received(st, o) ==
  [on |-> TRUE, next |-> Len(st.nextCalls[o]), error |-> st.errorCalls[o],
   complete |-> st.completeCalls[o]]

\* A variant of Unsubscribe for loops that iterate a copy of the Set.
UnsubscribeFromCopy(st, o) ==
  IF ~st.observers.defined THEN st
  ELSE LET keep(x) == x # o
       IN [st EXCEPT !.observers.list = SelectSeq(@, keep),
                     !.gone[o] = Received(st, o)]

Unsubscribe(st, o) ==
  IF ~st.observers.defined THEN st
  ELSE LET keep(x) == x # o
           visited(x) == \E i \in 1..Len(st.iter) : i < st.idx /\ st.iter[i] = x
           ahead(x) == \E i \in 1..Len(st.iter) : i >= st.idx /\ st.iter[i] = x
           keepAhead(x) == x # o \/ visited(x)
       IN [st EXCEPT
             !.observers.list = SelectSeq(@, keep),
             !.gone[o] = Received(st, o),
             !.iter = SelectSeq(@, keepAhead),
             !.skipped = IF st.pc = "error" /\ ahead(o) THEN @ \cup {o}
                         ELSE @,
             !.nextSkipped = IF st.pc = "publish" /\ ahead(o) THEN @ \cup {o}
                             ELSE @]

\* What the callback of an observer does after it recorded its call.
Callback(st, cb) ==
  IF cb.does = "stop" THEN complete(st, {})
  ELSE IF cb.does = "unsubscribe" THEN Unsubscribe(st, cb.o)
  ELSE st

\* stop() or complete(), as the user code of this instance calls it.
StopOrComplete(st) ==
  IF st.mode = "Subject" THEN complete(st, {}) ELSE stop(st, NoError)

\* The state the main hook reads from its first useState call.
ReadState == IF memory = <<>> THEN 0 ELSE memory[1].state

\* What the hook calls of an execution are, compared with the memory cells
\* of the first completed execution: a call of another kind, one call too
\* many, or (in an execution that returns) calls missing.
ShapeChange(cells, calls, throws) ==
  LET n == IF Len(calls) < Len(cells) THEN Len(calls) ELSE Len(cells) IN
  IF \E i \in 1..n : calls[i].kind # cells[i].kind THEN "OrderOfHookCalls"
  ELSE IF Len(calls) > Len(cells) THEN "NumberOfHookCalls"
  ELSE IF Len(calls) < Len(cells) /\ ~throws THEN "NumberOfHookCalls"
  ELSE NoError

\* The error the dependencies of an execution's hook calls call for: the
\* first call, in order, that passes a dependency list where the cell has
\* none (or the reverse), or a list of another length.
DepsChange(cells, calls) ==
  LET n == IF Len(calls) < Len(cells) THEN Len(calls) ELSE Len(cells)
      bad(i) == /\ calls[i].kind = cells[i].kind
                /\ calls[i].kind # "StateMemoryCell"
                /\ \/ calls[i].deps.defined # cells[i].dependencies.defined
                   \/ Len(calls[i].deps.list) # Len(cells[i].dependencies.list)
      first == CHOOSE i \in 1..n : bad(i) /\ \A j \in 1..(i - 1) : ~bad(j)
  IN IF ~\E i \in 1..n : bad(i) THEN NoError
     ELSE IF \E j \in 1..first : calls[j].kind # cells[j].kind THEN NoError
     ELSE IF calls[first].deps.defined # cells[first].dependencies.defined
       THEN "ExistenceOfDeps"
     ELSE "NumberOfDeps"

\* What an execution that reused the cells `before` made of them (`after`).
DepsLog(before, calls, after) ==
  [i \in 1..Len(calls) |->
     [kind |-> calls[i].kind,
      previous |-> before[i].dependencies, passed |-> calls[i].deps,
      wasOutdated |-> before[i].outdated, outdated |-> after[i].outdated,
      recomputed |-> after[i].value # before[i].value]]

\* execute(), up to the call of the main hook: the instance becomes the
\* active one and the memory pointer is reset.
EnterMainHook(st, b) ==
  [st EXCEPT !.active = TRUE, !.memoryPointer = 0,
             !.mainHookCalls = @ + 1, !.fuel = @ - b.cost,
             !.afterDestroyed = @ \/ st.taskDestroyed,
             !.shapeChange = IF st.memoryAllocated /\ @ = NoError
                               THEN ShapeChange(st.memory, b.calls, b.throws)
                               ELSE @,
             !.depsChange = IF st.memoryAllocated /\ @ = NoError
                              THEN DepsChange(st.memory, b.calls)
                              ELSE @]

\* The memory after the hook calls h of the main hook.
StoreCells(st, b, h) ==
  [st EXCEPT !.memory = h.memory, !.memoryPointer = h.memoryPointer,
             !.depsLog =
                IF /\ st.memoryAllocated /\ h.err = NoError
                   /\ Len(b.calls) = Len(st.memory)
                  THEN DepsLog(st.memory, ResolveCalls(b.calls, h.memory),
                               h.memory)
                  ELSE <<>>,
             !.initCalls = @ + h.inits,
             !.shadow = IF st.memory = <<>> /\ h.memory # <<>>
                          THEN h.memory[1].state ELSE @]

\* The main hook returns (or throws), and execute() compares the memory
\* pointer with the number of cells.
ReturnFromMainHook(st, b) ==
  IF b.throws THEN Fail(st, "BodyError")
  ELSE IF st.memoryPointer # Len(st.memory)
    THEN Fail(st, "NumberOfHookCalls")
  ELSE [st EXCEPT !.memoryAllocated = TRUE, !.value = b.result,
                  !.allocated = IF st.memoryAllocated THEN @
                                ELSE Kinds(st.memory)]

\* The body of the main hook from its hook calls h on: a hook call that
\* threw ends it; otherwise it may call stop()/complete() and setState.
AfterHookCalls(st, b, h) ==
  IF h.err # NoError THEN Fail(st, h.err)
  ELSE LET st1 == SetStates(IF b.stop THEN StopOrComplete(st) ELSE st,
                            b.sets, 1)
       IN ReturnFromMainHook(st1, b)

\* What the useEffect calls of an execution that returned were passed, by
\* cell: h.memoryPointer calls returned; the other cells keep what the
\* execution before passed.
Supplied(before, calls, h, s) ==
  [k \in 1..Len(h.memory) |->
     IF /\ k <= h.memoryPointer /\ k <= Len(calls)
        /\ calls[k].kind = "EffectMemoryCell"
       THEN [effect |-> <<calls[k].id, s>>, dependencies |-> calls[k].deps]
     ELSE IF k <= Len(before) THEN before[k]
     ELSE [effect |-> <<0, 0>>, dependencies |-> NoDeps]]

\* The hook calls of the main hook, made on the memory of st.
CallHooks(st, b, s, h) ==
  LET st1 == [StoreCells(st, b, h) EXCEPT
                !.supplied = Supplied(@, ResolveCalls(b.calls, h.memory),
                                      h, s)]
  IN AfterHookCalls(st1, b, h)

\* The main hook, called on the instance st with the state s it reads.
CallMainHook(st, b, s) ==
  LET h == HookCalls([memory |-> st.memory, memoryPointer |-> 0,
                      err |-> NoError, n |-> st.mainHookCalls,
                      inits |-> 0, setState |-> 0],
                     st.memoryAllocated, b.calls, 1, s)
  IN CallHooks(st, b, s, h)

\* mainHook(), as execute() calls it, and the checks after it.
MainHook(st, b, s) ==
  LET st0 == EnterMainHook(st, b) IN CallMainHook(st0, b, s)

\* The end of a task's invocation loop.
EndOfRun(st) ==
  [st EXCEPT !.pc = "idle", !.running = FALSE, !.taskDestroyed = FALSE]

ToCleanUp(st) == [st EXCEPT !.pc = "cleanup"]

\* A variant of AfterApply that ends the task once stop() has been called.
AfterApplyUnlessStopped(st, otherwise) ==
  LET r == applyStateChanges(st.memory)
      st1 == [st EXCEPT !.memory = r.memory,
                        !.applied = IF r.err # NoError THEN @
                                    ELSE Applied(st, r)]
  IN IF r.err # NoError THEN Fail(st1, r.err)
     ELSE IF st.stopped THEN EndOfRun(st1)
     ELSE IF r.changed THEN [st1 EXCEPT !.pc = "execute", !.stale = TRUE]
     ELSE IF otherwise = "cleanup" THEN ToCleanUp(st1)
     ELSE EndOfRun(st1)

\* A variant of AfterApply that commits after the first execution of a loop
\* pass, without applying what the body enqueued.
AfterApplyCommitFirst(st, otherwise) ==
  LET r == applyStateChanges(st.memory)
      st1 == [st EXCEPT !.memory = r.memory,
                        !.applied = IF r.err # NoError THEN @
                                    ELSE Applied(st, r)]
  IN IF otherwise = "cleanup" THEN ToCleanUp(st)
     ELSE IF r.err # NoError THEN Fail(st1, r.err)
     ELSE IF r.changed THEN [st1 EXCEPT !.pc = "execute", !.stale = TRUE]
     ELSE EndOfRun(st1)

\* `!this.memoryAllocated || this.applyStateChanges()` and both
\* `while (this.applyStateChanges())`: where the loop goes next, to execute()
\* when the state changed and otherwise on (to cleanUpEffects(), or to the
\* end of the task).
AfterApply(st, otherwise) ==
  LET r == applyStateChanges(st.memory)
      st1 == [st EXCEPT !.memory = r.memory,
                        !.applied = IF r.err # NoError THEN @
                                    ELSE Applied(st, r)]
  IN IF r.err # NoError THEN Fail(st1, r.err)
     ELSE IF r.changed THEN [st1 EXCEPT !.pc = "execute", !.stale = TRUE]
     ELSE IF otherwise = "cleanup" THEN ToCleanUp(st1)
     ELSE EndOfRun(st1)

\* A variant of Macrotask without the `stopped` guard.
MacrotaskUnguarded(st) ==
  LET st1 == [st EXCEPT !.running = TRUE] IN
  IF ~st.memoryAllocated THEN [st1 EXCEPT !.pc = "execute"]
  ELSE AfterApply(st1, "idle")

\* The callback scheduleRun passes to queueMacrotask, up to the first
\* execute() of run().
Macrotask(st) ==
  IF st.stopped THEN st
  ELSE LET st1 == [st EXCEPT !.running = TRUE] IN
       IF ~st.memoryAllocated THEN [st1 EXCEPT !.pc = "execute"]
       ELSE AfterApply(st1, "idle")

\* A variant of OnResult that catches what the callback throws.
OnResultCaught(st, cb) ==
  LET st1 == [st EXCEPT !.results = Append(@, st.value),
                        !.fuel = @ - Cost(cb # "ok"),
                        !.consoleErrors =
                           IF cb = "throw" THEN @ \cup {"publishing value"}
                           ELSE @]
  IN [(IF cb = "stop" THEN stop(st1, NoError) ELSE st1)
      EXCEPT !.pc = "apply", !.active = FALSE, !.stale = FALSE]

\* A variant of OnResult that keeps the result for the end of the loop.
OnResultKept(st, cb) ==
  [st EXCEPT !.pc = "apply", !.active = FALSE, !.stale = FALSE]

\* execute: `this.listener.onResult(result)` and the finally block.
OnResult(st, cb) ==
  LET st1 == [st EXCEPT !.results = Append(@, st.value),
                        !.fuel = @ - Cost(cb # "ok")]
  IN IF cb = "throw" THEN Fail(st1, "OnResultError")
     ELSE [(IF cb = "stop" THEN stop(st1, NoError) ELSE st1)
           EXCEPT !.pc = "apply", !.active = FALSE, !.stale = FALSE]

\* ------------------------------------------------------ the invocation loop

\* A variant of SubjectTask that executes the main hook in every task.
SubjectTaskAlwaysExecutes ==
  /\ mode = "Subject" /\ pc = "idle" /\ pendingRuns > 0
  /\ Commit([Cur EXCEPT !.pendingRuns = @ - 1, !.taskBegun = TRUE,
                        !.taskDestroyed = ~observers.defined,
                        !.pc = "execute"])

\* Subject.run: the microtask begins.
SubjectTask ==
  /\ mode = "Subject" /\ pc = "idle" /\ pendingRuns > 0
  /\ LET st == [Cur EXCEPT !.pendingRuns = @ - 1, !.taskBegun = TRUE,
                           !.taskDestroyed = ~observers.defined]
     IN IF ~memoryAllocated THEN Commit([st EXCEPT !.pc = "execute"])
        ELSE Commit(AfterApply(st, "idle"))

\* Runner.scheduleRun: the macrotask begins, after every queued microtask.
RunnerTask ==
  /\ mode = "Runner" /\ pc = "idle" /\ microtasks = <<>> /\ macrotasks > 0
  /\ Commit(Macrotask([Cur EXCEPT !.macrotasks = @ - 1,
                                  !.taskBegun = TRUE]))

\* Subject.execute, up to the loop over the observers.
SubjectExecute ==
  /\ mode = "Subject" /\ pc = "execute"
  /\ IF ~observers.defined THEN Commit([Cur EXCEPT !.pc = "apply"])
     ELSE \E b \in Bodies(hook, ReadState, fuel) :
            LET st == MainHook(Cur, b, ReadState) IN
            IF st.thrown # NoError THEN Commit(st)
            ELSE IF ~st.observers.defined
              THEN Commit(Fail([st EXCEPT !.valuesLog = Append(@, st.value)],
                               "TypeError"))
            ELSE Commit([st EXCEPT
                           !.pc = "publish",
                           !.iter = st.observers.list, !.idx = 1,
                           !.nextDue = st.observers.list,
                           !.nextBase = st.nextCalls, !.nextLog = <<>>,
                           !.nextSkipped = {},
                           !.valuesLog = Append(@, st.value)])

\* A variant of ObserverNext that keeps undefined to itself, as the Runner
\* does.
ObserverNextDefined(st, o) ==
  IF st.value = Undefined THEN st
  ELSE [st EXCEPT !.nextCalls[o] = Append(@, st.value)]

\* observer.next(value).
ObserverNext(st, o) == [st EXCEPT !.nextCalls[o] = Append(@, st.value)]

\* A variant of Publish without the try/catch around observer.next(value).
PublishUncaught ==
  /\ mode = "Subject" /\ pc = "publish"
  /\ IF idx > Len(iter)
       THEN Commit([Cur EXCEPT !.pc = "apply", !.active = FALSE, !.stale = FALSE,
                               !.iter = <<>>, !.idx = 0, !.threw = {}])
       ELSE \E cb \in ObserverCallbacks(fuel, handles) :
              LET o == iter[idx]
                  st == [ObserverNext(Cur, o) EXCEPT
                           !.nextLog = Append(@, o),
                           !.lateCalls = @ \/ o \in late,
                           !.nextAfterError = @ \/ errorCalls[o] > 0,
                           !.nextAfterComplete = @ \/ completeCalls[o] > 0,
                           !.idx = @ + 1,
                           !.fuel = @ - Cost(cb.does # "ok"),
                           !.threw = IF cb.does = "throw" THEN @ \cup {o}
                                     ELSE @,
                           !.consoleErrors =
                              IF cb.does = "throw"
                                THEN @ \cup {"publishing value"} ELSE @]
              IN IF cb.does = "throw" THEN Commit(Fail(st, "NextError"))
                 ELSE Commit(Callback(st, cb))

\* Subject.execute: observer.next(value) for the next observer of the loop.
Publish ==
  /\ mode = "Subject" /\ pc = "publish"
  /\ IF idx > Len(iter)
       THEN Commit([Cur EXCEPT !.pc = "apply", !.active = FALSE, !.stale = FALSE,
                               !.iter = <<>>, !.idx = 0, !.threw = {}])
       ELSE \E cb \in ObserverCallbacks(fuel, handles) :
              LET o == iter[idx]
                  st == [ObserverNext(Cur, o) EXCEPT
                           !.nextLog = Append(@, o),
                           !.lateCalls = @ \/ o \in late,
                           !.nextAfterError = @ \/ errorCalls[o] > 0,
                           !.nextAfterComplete = @ \/ completeCalls[o] > 0,
                           !.idx = @ + 1,
                           !.fuel = @ - Cost(cb.does # "ok"),
                           !.threw = IF cb.does = "throw" THEN @ \cup {o}
                                     ELSE @,
                           !.consoleErrors =
                              IF cb.does = "throw"
                                THEN @ \cup {"publishing value"} ELSE @]
              IN Commit(Callback(st, cb))

\* Runner.execute.
RunnerExecute ==
  /\ mode = "Runner" /\ pc = "execute"
  /\ \E b \in Bodies(hook, ReadState, fuel) :
       LET st == MainHook(Cur, b, ReadState) IN
       IF st.thrown # NoError THEN Commit(st)
       ELSE IF ~Forwarded(st.value)
         THEN Commit([st EXCEPT !.pc = "apply", !.active = FALSE,
                                !.stale = FALSE,
                                !.valuesLog = Append(@, st.value)])
       ELSE \E cb \in Callbacks(st.fuel) :
              Commit([OnResult(st, cb)
                      EXCEPT !.onResultThrew = @ \/ cb = "throw",
                             !.valuesLog = Append(@, st.value)])

\* run: `while (this.applyStateChanges()) this.execute()`.
Apply ==
  /\ pc = "apply"
  /\ Commit(AfterApply(Cur, "cleanup"))

\* run: `this.cleanUpEffects()`.
CleanUp ==
  /\ pc = "cleanup"
  /\ LET r == cleanUpEffects(memory, FALSE, Live(Cur))
         unforced(c) == ~c.forced
         calls == SelectSeq(r.calls, unforced)
     IN
     Commit([AfterCleanUp(Cur, r) EXCEPT
               !.commit =
                  [outdated |-> Outdated(memory),
                   held |-> {k \in 1..Len(memory) :
                               memory[k].cleanUpEffect # "none"},
                   log |-> [i \in 1..Len(calls) |->
                              Called("cleanup", calls[i].cell)],
                   ran |-> <<>>],
               !.pc = "trigger", !.idx = 1])

\* triggerEffects: the next outdated effect cell of the loop.
triggerEffects ==
  /\ pc = "trigger"
  /\ LET k == NextOutdated(memory, idx) IN
     IF k = 0 THEN Commit([Cur EXCEPT !.pc = "loop", !.idx = 0])
     ELSE \E e \in Effects(hook, memory[k].effect, fuel) :
            LET st0 == [Cur EXCEPT
                          !.memory[k].outdated = FALSE,
                          !.effectCalls = @ + 1, !.fuel = @ - e.cost,
                          !.effectCallsOf[memory[k].effect[1]] = @ + 1,
                          !.afterDestroyed = @ \/ taskDestroyed,
                          !.commit.log = Append(@, Called("effect", k)),
                          !.commit.ran = Append(@, Ran(k, memory[k].effect)),
                          !.alternation.held =
                             IF memory[k].cleanUpEffect # "none"
                               THEN @ \cup {k} ELSE @,
                          !.idx = k + 1]
                st1 == IF e.stop THEN StopOrComplete(st0) ELSE st0
                st2 == SetStates(st1, e.sets, 1)
                err == IF e.hook THEN getActive(st0.active) ELSE NoError
            IN IF err # NoError THEN Commit(Fail(st0, err))
               ELSE IF e.throws THEN Commit(Fail(st2, "EffectError"))
               ELSE Commit([st2 EXCEPT !.memory[k].cleanUpEffect = e.cleanup])

\* run: `} while (this.applyStateChanges())`.
Loop ==
  /\ pc = "loop"
  /\ Commit(AfterApply(Cur, "idle"))

\* Subject.run: the catch block, up to the loop over the observers.
SubjectCatch ==
  /\ mode = "Subject" /\ pc = "catch"
  /\ IF ~observers.defined
       THEN Commit([Cur EXCEPT !.pc = "idle", !.thrown = NoError,
                               !.taskDestroyed = FALSE])
       ELSE Commit([Cur EXCEPT
                      !.pc = "error", !.iter = observers.list, !.idx = 1,
                      !.subscribedAtFatal =
                         {observers.list[i] : i \in 1..Len(observers.list)}])

\* A variant of EndOfCatch that keeps the observers.
EndOfCatchKeepsObservers(st) ==
  [ForceCleanUp(st) EXCEPT !.completionResolved = @ + 1]

\* Subject.run: the catch block after its loop over the observers.
EndOfCatch(st) ==
  [ForceCleanUp([st EXCEPT !.observers = NoObservers])
   EXCEPT !.completionResolved = @ + 1]

\* Subject.run: observer.error(error) for the next observer of the loop, and
\* what follows the loop.
PublishError ==
  /\ mode = "Subject" /\ pc = "error"
  /\ IF idx > Len(iter)
       THEN Commit([EndOfCatch(Cur)
                    EXCEPT !.pc = "idle",
                           !.thrown = NoError, !.iter = <<>>, !.idx = 0,
                           !.taskDestroyed = FALSE, !.threw = {}])
       ELSE \E cb \in ObserverCallbacks(fuel, handles) :
              LET o == iter[idx]
                  st == [Cur EXCEPT
                           !.errorCalls[o] = @ + 1,
                           !.errorValue[o] = thrown,
                           !.lateCalls = @ \/ o \in late,
                           !.heldAtSignal = @ \/ HoldsCleanUp(memory),
                           !.idx = @ + 1,
                           !.fuel = @ - Cost(cb.does # "ok"),
                           !.threw = IF cb.does = "throw" THEN @ \cup {o}
                                     ELSE @,
                           !.consoleErrors =
                              IF cb.does = "throw"
                                THEN @ \cup {"publishing error"} ELSE @]
              IN Commit(Callback(st, cb))

\* queueMacrotask: the callback threw, the promise rejects and its catch
\* reaction is queued; Runner.running stays set.
RunnerReject ==
  /\ mode = "Runner" /\ pc = "catch"
  /\ Commit([Cur EXCEPT
               !.microtasks = Append(@, [kind |-> "catch", error |-> thrown]),
               !.pc = "idle", !.thrown = NoError])

\* The next queued promise reaction of the Runner: `error => this.stop(error)`
\* of scheduleRun, or the clean-up and onStopped of stop.
RunnerMicrotask ==
  /\ mode = "Runner" /\ pc = "idle" /\ microtasks # <<>>
  /\ LET task == Head(microtasks)
         st == [Cur EXCEPT !.microtasks = Tail(@)]
     IN IF task.kind = "catch"
          THEN Commit(stop([st EXCEPT !.swallowed = @ \/ stopped], task.error))
        ELSE LET st1 == ForceCleanUp(st) IN
             Commit([st1 EXCEPT
                       !.onStoppedCalls = @ + 1,
                       !.resultsAtStop = Len(results),
                       !.heldAtSignal = @ \/ HoldsCleanUp(st1.memory),
                       !.settleCalls = @ + 1,
                       !.promise = IF @ # "pending" THEN @
                                   ELSE IF task.error # NoError
                                     THEN "rejected" ELSE "resolved",
                       !.promiseError = IF st1.promise # "pending" THEN @
                                        ELSE task.error])

\* ------------------------------------------------------------ the callers

\* A variant of AddObserver that makes a new Set when there is none.
AddObserverAnyway(st, o) ==
  LET l == st.observers.list IN
  IF \E i \in 1..Len(l) : l[i] = o THEN st
  ELSE [st EXCEPT !.observers = [defined |-> TRUE, list |-> Append(l, o)]]

\* `this.observers?.add(observer)`.
AddObserver(st, o) ==
  LET l == st.observers.list IN
  IF st.observers.defined /\ ~\E i \in 1..Len(l) : l[i] = o
    THEN [st EXCEPT !.observers.list = Append(l, o)]
    ELSE st

\* Subject.subscribe(observer).
subscribe(o) ==
  /\ mode = "Subject" /\ pc = "idle" /\ subscribes < MaxSubscribes
  \* observers are interchangeable: they first subscribe in the order 1, 2, ...
  /\ o \in handles \/ o = Cardinality(handles) + 1
  /\ LET st == [Cur EXCEPT
                  !.subscribes = @ + 1,
                  !.handles = @ \cup {o},
                  !.late = IF observers.defined THEN @ ELSE @ \cup {o},
                  !.gone[o] = IF observers.defined THEN NotGone ELSE @]
     IN Commit(SubjectRun(AddObserver(st, o)))

\* The Unsubscribe function subscribe(observer) returned.
unsubscribe(o) ==
  /\ mode = "Subject" /\ pc = "idle" /\ fuel > 0 /\ o \in handles
  /\ Commit(Unsubscribe([Cur EXCEPT !.fuel = @ - 1], o))

\* Subject.complete(), called between two tasks.
Complete ==
  /\ mode = "Subject" /\ pc = "idle" /\ fuel > 0
  /\ \E cthr \in Throwers :
       Commit(complete([Cur EXCEPT !.fuel = @ - 1,
                                   !.endedEarly = @ \/ ~taskBegun], cthr))

\* run(mainHook, onResult).
run ==
  /\ mode = "Runner" /\ ~started
  /\ Commit(scheduleRun([Cur EXCEPT !.started = TRUE]))

\* RunningHook.stop(), called between two tasks.
Stop ==
  /\ mode = "Runner" /\ pc = "idle" /\ started /\ fuel > 0
  /\ Commit(stop([Cur EXCEPT
                     !.fuel = @ - 1,
                     !.endedEarly = @ \/ ~taskBegun,
                     !.idleStop =
                        IF @.called THEN @
                        ELSE [called |-> TRUE, mainHookCalls |-> mainHookCalls,
                              results |-> Len(results),
                              effectCalls |-> effectCalls]],
                 NoError))

\* setState called between two tasks (a timer or a promise of an effect).
SetStateLater ==
  /\ pc = "idle" /\ fuel > 0 /\ memory # <<>>
  /\ memory[1].kind = "StateMemoryCell"
  /\ \E stateChange \in Alphabet(memory[1].state) :
       Commit(setState([Cur EXCEPT !.fuel = @ - 1], stateChange))

\* useEffect, useState or useMemo called as a method on the instance by
\* code outside the main hook (the caller is the one that holds the instance
\* of the hook "outside").
IllegalHookCall ==
  /\ pc = "idle" /\ fuel > 0 /\ hook = "outside"
  /\ LET err == CheckActive(active) IN
     IF err # NoError
       THEN Commit([Cur EXCEPT !.fuel = @ - 1, !.usageErrors = @ + 1])
       ELSE Commit([Cur EXCEPT !.fuel = @ - 1, !.memoryPointer = @ + 1])

Next ==
  \/ SubjectTask \/ RunnerTask \/ SubjectExecute \/ Publish \/ RunnerExecute
  \/ Apply \/ CleanUp \/ triggerEffects \/ Loop \/ SubjectCatch
  \/ PublishError \/ RunnerReject \/ RunnerMicrotask
  \/ (\E o \in Observers : subscribe(o))
  \/ (\E o \in Observers : unsubscribe(o))
  \/ Complete \/ run \/ Stop \/ SetStateLater \/ IllegalHookCall

Spec == Init /\ [][Next]_vars

\* A step of a deferred task (a microtask, a macrotask) of the instance.
TaskStep ==
  \/ SubjectTask \/ RunnerTask \/ RunnerMicrotask \/ SubjectExecute
  \/ Publish \/ RunnerExecute \/ Apply \/ CleanUp \/ triggerEffects \/ Loop
  \/ SubjectCatch \/ PublishError \/ RunnerReject

\* A deferred task is queued or in progress: TaskStep is enabled.
TaskEnabled ==
  \/ pc # "idle"
  \/ mode = "Subject" /\ pendingRuns > 0
  \/ mode = "Runner" /\ (microtasks # <<>> \/ macrotasks > 0)

\* The deferred tasks eventually run, and a task that has begun runs to its
\* end; the callers of the instance need not do anything. This is
\* WF_vars(TaskStep) with TaskEnabled for ENABLED <<TaskStep>>_vars.
Fairness == []<>(~TaskEnabled) \/ []<><<TaskStep>>_vars

FairSpec == Spec /\ Fairness

\* -------------------------------------------------------------------- claims

\* The instance has no task in progress and none queued that could act.
SubjectSettled == mode = "Subject" /\ pc = "idle" /\ pendingRuns = 0

RunnerSettled == mode = "Runner" /\ pc = "idle" /\ microtasks = <<>>

\* C1: the state changes enqueued between two executions are applied
\* together, in enqueue order, each updater receiving the value the previous
\* change left: whenever the main hook is about to be executed, no change is
\* pending and the state it reads is the result of all setState calls so far;
\* the hook of the worked example is executed four times and delivers exactly
\* 0, 1, 2, 4 (never 3): all four to the listener of a Runner and to every
\* observer of a Subject that is subscribed to the end, the first of them to
\* an observer that was unsubscribed on the way.
C1_Compounding ==
  /\ (pc = "execute" /\ memory # <<>>
        /\ (mode = "Subject" => observers.defined))
       => memory[1].stateChanges = <<>> /\ memory[1].state = shadow
  /\ hook = "worked" =>
       /\ \A i \in 1..Len(results) : results[i] # 3
       /\ \A o \in Observers : \A i \in 1..Len(nextCalls[o]) :
            nextCalls[o][i] # 3
       /\ fatal = "EffectError" =>
            /\ mainHookCalls = 4
            /\ mode = "Runner" => results = <<0, 1, 2, 4>>
            /\ mode = "Subject" =>
                 \A o \in Observers :
                   /\ nextCalls[o] = SubSeq(<<0, 1, 2, 4>>, 1, Len(nextCalls[o]))
                   /\ o \in subscribedAtFatal => nextCalls[o] = <<0, 1, 2, 4>>

C1_Witness ==
  /\ hook = "worked" /\ fatal = "EffectError" /\ mainHookCalls = 4
  /\ \/ results = <<0, 1, 2, 4>>
     \/ \E o \in Observers : nextCalls[o] = <<0, 1, 2, 4>>

\* C2: as long as every setState call set the cell to its own current state
\* (a value identical to it, or an updater returning it), the main hook is
\* executed at most once and at most one result is delivered; the Runner has
\* delivered exactly one once the execution has returned a result.
C2_NoChangeNoReexecution ==
  onlySelfSets =>
    /\ mainHookCalls <= 1
    /\ Len(results) <= 1
    /\ \A o \in Observers : Len(nextCalls[o]) <= 1
    /\ (mode = "Runner" /\ memoryAllocated /\ value # Undefined)
         => Len(results) = 1

C2_Witness ==
  /\ onlySelfSets /\ setStateCalls >= 2 /\ effectCalls >= 1
  /\ pc = "idle" /\ pendingRuns = 0 /\ macrotasks = 0 /\ microtasks = <<>>
  /\ \/ results = <<0>>
     \/ \E o \in Observers : nextCalls[o] = <<0>>

C4_CleanUpBeforeSignal == mode = "Subject" => ~heldAtSignal

C6_NothingRunsAfterTheEnd == mode = "Subject" => ~afterDestroyed

\* C7: once a destroyed instance has settled (a Subject without observers
\* set and no queued run; a stopped Runner whose microtasks have run), no
\* effect cell holds a clean-up function.
C7_NoCleanUpLeft ==
  (\/ SubjectSettled /\ ~observers.defined
   \/ RunnerSettled /\ stopped)
    => ~HoldsCleanUp(memory)

\* C8: whatever stop() calls and fatal error a Runner sees, onStopped is
\* called, the promise settled and the forced clean-up run at most once, and
\* exactly once when the microtasks have run after the first of them.
C8_StopOnce ==
  mode = "Runner" =>
    /\ onStoppedCalls <= 1 /\ settleCalls <= 1 /\ forcedCleanUps <= 1
    /\ (RunnerSettled /\ stopCalls >= 1) =>
         /\ onStoppedCalls = 1 /\ settleCalls = 1 /\ forcedCleanUps = 1
         /\ promise # "pending"
    /\ stopCalls = 0 => onStoppedCalls = 0 /\ promise = "pending"

C8_Witness ==
  /\ RunnerSettled /\ stopCalls >= 2 /\ onStoppedCalls = 1
  /\ mainHookCalls >= 1

\* C9: the error() and complete() callbacks of an observer of a Subject are
\* together called at most once.
C9_OneTerminalSignal ==
  \A o \in Observers : errorCalls[o] + completeCalls[o] <= 1

UserErrors == {"BodyError", "UpdaterError", "InitError", "EffectError"}

\* C11: once stop() has been called on a Runner between two tasks, no task
\* of it executes the main hook, calls onResult or triggers an effect, also
\* when setState is called later.
C11_NoOpAfterIdleStop ==
  (mode = "Runner" /\ idleStop.called) =>
    /\ mainHookCalls = idleStop.mainHookCalls
    /\ Len(results) = idleStop.results
    /\ effectCalls = idleStop.effectCalls
    /\ pc = "idle"

C11_Witness ==
  /\ RunnerSettled /\ idleStop.called /\ idleStop.mainHookCalls >= 1
  /\ macrotasks = 0 /\ fatal = NoError
  /\ memory[1].stateChanges # <<>> /\ memory[1].stateChanges[1] = Add(1)

\* C12: stop() called in the body of the main hook does not interrupt the
\* invocation loop: while a task of a Runner is in progress the forced
\* clean-up has not run, onStopped has not been called and the promise is
\* pending; the hook that calls stop() in its body and whose effect sets the
\* state to 1 delivers 0 and 1, runs the effect twice and cleans it up twice
\* before the promise resolves.
C12_InternalStopEndsTheLoopFirst ==
  mode = "Runner" =>
    /\ pc # "idle" =>
         onStoppedCalls = 0 /\ forcedCleanUps = 0 /\ promise = "pending"
    /\ (hook = "internalStop" /\ fatal = NoError /\ mainHookCalls >= 1
          /\ RunnerSettled) =>
         /\ results = <<0, 1>> /\ mainHookCalls = 2
         /\ effectCalls = 2 /\ cleanUpCalls = 2
         /\ promise = "resolved"

C12_Witness ==
  /\ mode = "Runner" /\ hook = "internalStop" /\ RunnerSettled
  /\ results = <<0, 1>> /\ promise = "resolved" /\ stopCalls >= 1
  /\ cleanUpCalls = 2

\* C13 (as amended): an error thrown in a Runner by the body of the main
\* hook, a state updater, a lazy initializer or an effect rejects the promise
\* with that error, unless stop() had been called before the error reached
\* Runner.stop (then the promise resolves).
C13_UserErrorsReject ==
  (mode = "Runner" /\ fatal \in UserErrors /\ RunnerSettled) =>
    /\ onStoppedCalls = 1
    /\ IF swallowed THEN promise = "resolved" /\ promiseError = NoError
       ELSE promise = "rejected" /\ promiseError = fatal

\* C13 as stated: the promise always rejects with the error.
C13_Original ==
  (mode = "Runner" /\ fatal \in UserErrors /\ RunnerSettled) =>
    promise = "rejected" /\ promiseError = fatal

C13_Witness ==
  /\ RunnerSettled /\ fatal = "UpdaterError" /\ ~swallowed
  /\ promise = "rejected" /\ promiseError = "UpdaterError"
  /\ results # <<>>

\* C14: when stop() had been called on a Runner before the fatal error was
\* thrown, the promise resolves, and onStopped is called once, without error.
C14_NoErrorAfterStop ==
  (mode = "Runner" /\ stoppedAtThrow) =>
    /\ promise # "rejected" /\ promiseError = NoError
    /\ RunnerSettled => promise = "resolved" /\ onStoppedCalls = 1

C14_Witness ==
  /\ RunnerSettled /\ stoppedAtThrow /\ fatal = "BodyError"
  /\ mainHookCalls = 1 /\ idleStop.called = FALSE
  /\ promise = "resolved"

\* C15 (as amended): after onResult has thrown, the main hook of the Runner
\* is not executed again and no result is delivered; when the microtasks
\* have run the forced clean-up has run once, no effect cell holds a
\* clean-up function, and the promise is rejected with what onResult threw,
\* unless stop() had been called before (then it resolves).
C15_FailingOnResultIsFatal ==
  (mode = "Runner" /\ onResultThrew) =>
    /\ fatal = "OnResultError"
    /\ mainHookCalls = callsAtFatal
    /\ pc \in {"catch", "idle"}
    /\ RunnerSettled =>
         /\ forcedCleanUps = 1 /\ ~HoldsCleanUp(memory)
         /\ Len(results) = resultsAtStop
         /\ IF swallowed THEN promise = "resolved"
            ELSE promise = "rejected" /\ promiseError = "OnResultError"

\* C15 as stated: the promise always rejects with what onResult threw.
C15_Original ==
  (mode = "Runner" /\ onResultThrew /\ RunnerSettled) =>
    promise = "rejected" /\ promiseError = "OnResultError"

C15_Witness ==
  /\ RunnerSettled /\ onResultThrew /\ mainHookCalls = 2
  /\ promise = "rejected" /\ promiseError = "OnResultError"
  /\ cleanUpCalls >= 1

\* C16: when onStopped of a Runner is called, and so when the promise
\* settles, no effect cell holds a clean-up function.
C16_CleanUpBeforeOnStopped ==
  mode = "Runner" =>
    /\ ~heldAtSignal
    /\ promise # "pending" => onStoppedCalls = 1 /\ forcedCleanUps = 1

C16_Witness ==
  /\ RunnerSettled /\ onStoppedCalls = 1 /\ fatal = NoError
  /\ effectCalls = 1 /\ cleanUpCalls = 1 /\ forcedCleanUps = 1

\* s is t with some elements left out.
RECURSIVE IsSubSeq(_, _)
IsSubSeq(s, t) ==
  IF s = <<>> THEN TRUE
  ELSE IF t = <<>> THEN FALSE
  ELSE IF Head(s) = Head(t) THEN IsSubSeq(Tail(s), Tail(t))
  ELSE IsSubSeq(s, Tail(t))

\* The loop of execute() over the observers has ended.
PublishedAll == mode = "Subject" /\ pc = "publish" /\ idx > Len(iter)

SomeInputDiffers(a, b) ==
  \E i \in 1..Len(a.list) : ~ObjectIs(a.list[i], b.list[i])

SameLength(e) ==
  /\ e.previous.defined /\ e.passed.defined
  /\ Len(e.previous.list) = Len(e.passed.list)

C18_DependencyIdentity ==
  /\ \A i \in 1..Len(depsLog) :
       LET e == depsLog[i] IN
       /\ (e.kind = "MemoMemoryCell" /\ SameLength(e))
            => (e.recomputed <=> SomeInputDiffers(e.previous, e.passed))
       /\ (e.kind = "EffectMemoryCell" /\ SameLength(e) /\ ~e.wasOutdated)
            => (e.outdated <=> SomeInputDiffers(e.previous, e.passed))
       /\ (e.kind = "EffectMemoryCell" /\ e.wasOutdated) => e.outdated
       /\ (e.kind = "EffectMemoryCell" /\ ~e.previous.defined
             /\ ~e.passed.defined) => e.outdated
  /\ (hook = "inputs" /\ pc = "idle" /\ mainHookCalls = 3 /\ fatal = NoError)
       => effectCallsOf = <<3, 1, 2, 3>>

\* C18 as stated: an effect cell is marked outdated exactly if some element
\* differs, whether or not it was still outdated.
C18_Original ==
  \A i \in 1..Len(depsLog) :
    LET e == depsLog[i] IN
    (e.kind = "EffectMemoryCell" /\ SameLength(e))
      => (e.outdated <=> SomeInputDiffers(e.previous, e.passed))

C18_Witness ==
  /\ \E i \in 1..Len(depsLog) :
       /\ depsLog[i].kind = "EffectMemoryCell" /\ SameLength(depsLog[i])
       /\ ~depsLog[i].wasOutdated /\ depsLog[i].outdated
       /\ depsLog[i].passed.list # <<>>
  /\ \E i \in 1..Len(depsLog) :
       /\ depsLog[i].kind = "MemoMemoryCell" /\ SameLength(depsLog[i])
       /\ depsLog[i].passed.list # <<>> /\ ~depsLog[i].recomputed

\* C19: when a hook call passes a dependency list where the cell holds none
\* (or the reverse), or a list of another length, the execution throws the
\* matching error and the main hook is never executed again; every earlier
\* execution of that hook has delivered its result, and once the microtasks
\* of a Runner have run, onStopped has been called after the last result and
\* the promise is rejected with that error unless stop() had been called
\* before.
C19_DependencyShapeIsFatal ==
  depsChange # NoError =>
    /\ fatal = depsChange
    /\ mainHookCalls = callsAtFatal
    /\ (mode = "Runner" /\ hook = "deps") => Len(results) = mainHookCalls - 1
    /\ RunnerSettled =>
         /\ onStoppedCalls = 1
         /\ Len(results) = resultsAtStop
         /\ ~swallowed => promise = "rejected" /\ promiseError = fatal

C19_Witness ==
  /\ hook = "deps" /\ depsChange = "ExistenceOfDeps" /\ RunnerSettled
  /\ promise = "rejected" /\ promiseError = "ExistenceOfDeps"
  /\ results = <<0>> /\ mainHookCalls = 2

NoPendingStateChange ==
  \A i \in 1..Len(memory) : memory[i].stateChanges = <<>>

\* C21: subscribing does not execute the main hook again: while setState has
\* never been called a Subject executes its main hook at most once, and
\* exactly once when it has settled after a subscribe (unless complete() came
\* before the first task); and between two tasks of a Subject that has
\* completed an execution and has no state change pending, no step (a
\* subscribe, the task it queued) executes the main hook or starts the loop.
C21_SubscribeDoesNotExecute ==
  /\ [](mode = "Subject" =>
          /\ setStateCalls = 0 => mainHookCalls <= 1
          /\ (setStateCalls = 0 /\ SubjectSettled /\ subscribes >= 1
                /\ ~endedEarly) => mainHookCalls = 1)
  /\ [][(mode = "Subject" /\ pc = "idle" /\ memoryAllocated
           /\ NoPendingStateChange)
          => (mainHookCalls' = mainHookCalls /\ pc' = "idle")]_vars

C21_Witness ==
  /\ SubjectSettled /\ setStateCalls = 0 /\ observers.defined
  /\ observers.list = <<1, 2>> /\ mainHookCalls = 1 /\ subscribes = 2
  /\ nextCalls[1] # <<>> /\ nextCalls[2] = <<>>

\* C22: an observer whose Unsubscribe function has been called (and that has
\* not subscribed again) receives no further next, error or complete; the
\* observers still subscribed when a loop over the observers ends have all
\* received the value, or the error, of that loop.
Subscribed(o) ==
  observers.defined /\ \E i \in 1..Len(observers.list) : observers.list[i] = o

C23_ThrowingObserverIsCaught ==
  /\ [](mode = "Subject" =>
          /\ threw # {} =>
               /\ pc \in {"publish", "error"}
               /\ pc = "publish" =>
                    /\ thrown = NoError /\ "publishing value" \in consoleErrors
                    /\ fatal = NoError => \A o \in Observers : errorCalls[o] = 0
               /\ pc = "error" => "publishing error" \in consoleErrors
          /\ (PublishedAll /\ threw # {}) =>
               nextLog = SelectSeq(nextDue, LAMBDA o : o \notin nextSkipped)
          /\ (pc = "error" /\ idx > Len(iter) /\ threw # {}) =>
               \A o \in subscribedAtFatal \ skipped : errorCalls[o] = 1)
  /\ [][(mode = "Subject" /\ pc = "idle" /\ pc' = "idle"
           /\ observers.defined /\ ~observers'.defined)
          => \A o \in Observers :
               completeCalls'[o] = completeCalls[o] + Cost(Subscribed(o))]_vars

C23_Witness ==
  /\ PublishedAll /\ threw = {1} /\ nextLog = <<1, 2>> /\ fatal = NoError
  /\ nextCalls[2] = <<0>>

\* C24: a clean-up function that throws is reported and nothing more: when
\* the clean-up phase of a commit has run no outdated effect cell holds a
\* clean-up function, when the trigger phase has run no effect cell is
\* outdated, and after the forced clean-up of a Runner no cell holds one.
\* The hook whose first clean-up function throws fails only when onResult
\* or a state updater throws,
\* and once it is stopped every clean-up function its effects returned has
\* been called exactly once and the error has been reported.
C24_ThrowingCleanUpIsCaught ==
  /\ (pc = "trigger" /\ idx = 1) =>
       \A i \in 1..Len(memory) :
         (memory[i].kind = "EffectMemoryCell" /\ memory[i].outdated)
           => memory[i].cleanUpEffect = "none"
  /\ pc = "loop" => \A i \in 1..Len(memory) : ~memory[i].outdated
  /\ (mode = "Runner" /\ onStoppedCalls >= 1 /\ pc = "idle")
       => ~HoldsCleanUp(memory)
  /\ hook = "cleanUp" =>
       /\ fatal \in {NoError, "OnResultError", "UpdaterError"}
       /\ cleanUpCalls <= effectCalls
       /\ (RunnerSettled /\ promise # "pending") =>
            /\ cleanUpCalls = effectCalls
            /\ effectCalls >= 2 => "cleaning up effect" \in consoleErrors

C24_Witness ==
  /\ hook = "cleanUp" /\ RunnerSettled /\ promise = "resolved"
  /\ results = <<0, 1>> /\ effectCalls = 4 /\ cleanUpCalls = 4
  /\ "cleaning up effect" \in consoleErrors

\* C25: hooks succeed only while their instance is the active one, which it
\* is only while its main hook is being executed: no effect is triggered and
\* no outside code runs while the instance is active; the effect that calls
\* a hook gets 'Hooks can only be called inside the body of ...', on its
\* first invocation, and this is the error the instance fails with (its
\* promise is rejected with it unless stop() was called before it reached
\* Runner.stop, its observers that are still subscribed are sent it); a
\* hook method called on the instance from outside throws and leaves the
\* memory, the memory pointer and everything else of the instance as it was.
C25_HooksNeedTheActiveInstance ==
  /\ [](/\ pc \in {"idle", "cleanup", "trigger", "loop"} => ~active
        /\ fatal = "OutsideOfHook" =>
             /\ hook = "outside" /\ mainHookCalls = 1 /\ effectCalls = 1
             /\ ~HoldsCleanUp(memory)
        /\ (hook = "outside" /\ effectCalls >= 1) => fatal = "OutsideOfHook"
        /\ (hook = "outside" /\ RunnerSettled /\ effectCalls >= 1) =>
             /\ onStoppedCalls = 1
             /\ ~swallowed =>
                  promise = "rejected" /\ promiseError = "OutsideOfHook"
        /\ (hook = "outside" /\ SubjectSettled /\ effectCalls >= 1) =>
             /\ ~observers.defined
             /\ \A o \in subscribedAtFatal \ skipped : errorCalls[o] = 1)
  /\ [][usageErrors' # usageErrors =>
          /\ usageErrors' = usageErrors + 1 /\ ~active
          /\ memory' = memory /\ memoryPointer' = memoryPointer
          /\ memoryAllocated' = memoryAllocated /\ fatal' = fatal
          /\ thrown' = thrown /\ pc' = pc /\ observers' = observers
          /\ stopped' = stopped /\ microtasks' = microtasks
          /\ pendingRuns' = pendingRuns]_vars

C25_Witness ==
  /\ hook = "outside" /\ fatal = "OutsideOfHook" /\ usageErrors = 1
  /\ Len(memory) = 1 /\ pc = "idle"
  /\ \/ mode = "Runner" /\ promise = "rejected" /\ results = <<0>>
     \/ mode = "Subject" /\ errorCalls[1] = 1 /\ nextCalls[1] = <<0>>

\* C26: an observer that subscribes to a Subject whose main hook has
\* produced a value is delivered that value by the subscription itself,
\* and the main hook is not executed for it.
C26_LatestValueOnSubscription ==
  [][\A o \in Observers :
       (/\ mode = "Subject" /\ memoryAllocated /\ observers.defined
        /\ ~Subscribed(o)
        /\ \E i \in 1..Len(observers'.list) : observers'.list[i] = o)
         => /\ nextCalls'[o] = Append(nextCalls[o], value)
            /\ mainHookCalls' = mainHookCalls]_vars

\* The instance has not been stopped or completed and has not failed.
Alive ==
  /\ fatal = NoError /\ thrown = NoError
  /\ IF mode = "Subject" THEN observers.defined ELSE ~stopped

\* State changes are pending, and applying them will change a state.
ChangePending ==
  /\ ~NoPendingStateChange
  /\ applyStateChanges(memory).err = NoError
  /\ applyStateChanges(memory).changed

\* C27: if the deferred tasks eventually run, pending state changes that
\* change a state are eventually applied on an instance that is alive, and
\* the changed state is then read by an execution of the main hook whose
\* result is delivered (returned to onResult unless it is undefined, offered
\* to every observer in turn), unless the instance is stopped or completed or
\* fails before; this holds for setState calls made inside the invocation
\* loop and between two tasks. An execution that follows a change reads a
\* state with no change pending.
C27_StateChangeIsEventuallyDelivered ==
  /\ (Alive /\ ChangePending) ~> (stale \/ ~Alive)
  /\ stale ~> (~stale \/ ~Alive)
  /\ []((stale /\ pc = "execute") => NoPendingStateChange)

C27_Witness ==
  /\ Alive /\ ~stale /\ pc = "idle" /\ ~TaskEnabled /\ NoPendingStateChange
  /\ setStateCalls = 1 /\ mainHookCalls = 2
  /\ memory # <<>> /\ memory[1].state = shadow /\ shadow # 0
  /\ value = shadow
  /\ \/ mode = "Runner" /\ results = <<0, shadow>>
     \/ mode = "Subject" /\ nextCalls[1] = <<0, shadow>>

\* C28: the onResult callback of a Runner has been called with exactly the
\* results of the executions so far that are not undefined, in their order:
\* never with undefined, and with every other result, null included.
C28_OnResultUnlessUndefined ==
  mode = "Runner" =>
    /\ LET NotUndefined(v) == v # Undefined
       IN results = SelectSeq(valuesLog, NotUndefined)
    /\ Len(valuesLog) <= mainHookCalls
    /\ fatal = NoError => Len(valuesLog) = mainHookCalls

C28_Witness ==
  /\ mode = "Runner" /\ hook = "result" /\ pc = "idle"
  /\ valuesLog = <<Undefined, Null, 2>> /\ results = <<Null, 2>>

\* The state cells of a memory.
StateCells(cells) ==
  {i \in 1..Len(cells) : cells[i].kind = "StateMemoryCell"}

\* C29: a state cell is created once and used again by every later
\* execution: an initial state is evaluated (a lazy initializer invoked)
\* once per state cell, in the execution that creates the cell, and once
\* more at most when it throws; a cell stays a state cell with the setState
\* function it was created with; so the effect that depends on setState
\* alone runs in the first commit and never again.
C29_StateCellCreatedOnce ==
  /\ [](/\ initCalls <= Cardinality(StateCells(memory)) + 1
        /\ fatal # "InitError" => initCalls = Cardinality(StateCells(memory))
        /\ \A i \in StateCells(memory) :
             memory[i].setState \in SetStateRef + 1 .. SetStateRef + mainHookCalls
        /\ hook = "stable" =>
             /\ effectCallsOf[1] <= 1 /\ initCalls <= 1
             /\ (pc = "idle" /\ mainHookCalls >= 1 /\ fatal = NoError
                   /\ ~stopped) => effectCallsOf[1] = 1)
  /\ [][\A i \in StateCells(memory) :
          /\ i \in StateCells(memory')
          /\ memory'[i].setState = memory[i].setState
          /\ (memoryAllocated /\ memoryAllocated') => initCalls' = initCalls]_vars

C29_Witness ==
  /\ hook = "stable" /\ RunnerSettled /\ promise = "resolved"
  /\ mainHookCalls = 3 /\ results = <<0, 1, 2>> /\ effectCallsOf[1] = 1
  /\ initCalls = 1 /\ memory[1].setState = SetStateRef + 1
  /\ memory[2].dependencies = Deps(<<SetStateRef + 1>>)

\* The pending state changes of all state cells, cell by cell.
Pending(cells) == [i \in 1..Len(cells) |-> cells[i].stateChanges]

\* C30: in an invocation loop the commit begins only when applying the
\* pending state changes has reported no change: no state change is pending
\* when the clean-up phase runs or when the trigger phase begins, so none
\* that the body enqueued is pending while a clean-up or an effect function
\* runs; the changes pending during the trigger phase were enqueued by its
\* effects. After an execution, changes that change a state lead to another
\* execution and never to the commit. Effects run in the trigger phase only,
\* clean-up functions in the clean-up phase before it or in a forced
\* clean-up.
C30_CommitAfterTheLastChange ==
  /\ []((pc = "cleanup" \/ (pc = "trigger" /\ idx = 1))
          => NoPendingStateChange)
  /\ [][/\ (pc = "trigger" /\ pc' = "trigger"
              /\ Pending(memory') # Pending(memory))
             => effectCalls' = effectCalls + 1
        /\ (pc = "apply" /\ ChangePending) => pc' = "execute"
        /\ pc' = "cleanup" => (pc = "apply" /\ ~ChangePending)
        /\ pc' = "trigger" => pc \in {"cleanup", "trigger"}
        /\ effectCalls' # effectCalls => pc = "trigger"
        /\ cleanUpCalls' # cleanUpCalls
             => (pc = "cleanup" \/ forcedCleanUps' # forcedCleanUps)]_vars

C30_Witness ==
  /\ hook = "worked" /\ pc = "cleanup" /\ mainHookCalls = 4
  /\ setStateCalls = 4 /\ NoPendingStateChange /\ memory[1].state = 4
  /\ effectCalls = 4 /\ cleanUpCalls = 0

\* The cells of the calls of one phase in a commit's log, in order.
CellsOf(log, phase) ==
  LET of(c) == c.phase = phase
      calls == SelectSeq(log, of)
  IN [i \in 1..Len(calls) |-> calls[i].cell]

\* The elements of a sequence of cells.
Range(s) == {s[i] : i \in 1..Len(s)}

\* A sequence of cells in memory order.
Ascending(s) == \A i \in 1..Len(s) : \A j \in 1..Len(s) : i < j => s[i] < s[j]

\* C31: in a commit the clean-up functions of the outdated effect cells that
\* hold one are called, in memory order, before any effect function is
\* called; the effect functions of the outdated cells are called in memory
\* order, each once, up to the cell the trigger phase has reached (all of
\* them when it has ended); a cell that was not outdated when the commit began
\* has neither its clean-up function nor its effect function called by the
\* commit, and keeps the clean-up function it holds unless stop()/complete()
\* or a fatal error forces a clean-up.
C31_CleanUpThenTrigger ==
  LET cleaned == CellsOf(commit.log, "cleanup")
      triggered == CellsOf(commit.log, "effect")
  IN /\ commit.log = [i \in 1..Len(cleaned) |-> Called("cleanup", cleaned[i])]
                        \o [i \in 1..Len(triggered) |->
                              Called("effect", triggered[i])]
     /\ Ascending(cleaned) /\ Ascending(triggered)
     /\ Range(cleaned) = commit.outdated \cap commit.held
     /\ Range(triggered) \subseteq commit.outdated
     /\ pc = "trigger" =>
          /\ Range(triggered) = {k \in commit.outdated : k < idx}
          /\ Outdated(memory) = {k \in commit.outdated : k >= idx}
     /\ pc = "loop" => Range(triggered) = commit.outdated
     /\ (pc \in {"trigger", "loop"} /\ forcedCleanUps = 0) =>
          \A k \in commit.held \ commit.outdated :
            memory[k].cleanUpEffect # "none"

\* The last commit of the test 'sequence of setState, effect, and
\* cleanUpEffect': cleanup1, cleanup3, cleanup4, effect1, failing effect3
\* (the one-time effect2 is the third cell).
C31_Witness ==
  /\ hook = "worked" /\ pc = "catch" /\ mainHookCalls = 4
  /\ commit.outdated = {2, 4, 5} /\ commit.held = {2, 3, 4, 5}
  /\ commit.log = <<Called("cleanup", 2), Called("cleanup", 4),
                    Called("cleanup", 5), Called("effect", 2),
                    Called("effect", 4)>>
  /\ memory[3].cleanUpEffect = "ok"

C33_SetStateOnlyEnqueues ==
  /\ []((memory # <<>> /\ memory[1].kind = "StateMemoryCell") =>
          \A stateChange \in Alphabet(memory[1].state) :
            LET st == setState(Cur, stateChange) IN
            /\ st = [Cur EXCEPT
                       !.memory[1].stateChanges = Append(@, stateChange),
                       !.pendingRuns = st.pendingRuns,
                       !.macrotasks = st.macrotasks,
                       !.setStateCalls = @ + 1,
                       !.onlySelfSets = st.onlySelfSets,
                       !.shadow = st.shadow]
            /\ st.pendingRuns = pendingRuns + Cost(mode = "Subject")
            /\ st.macrotasks =
                 macrotasks + Cost(mode = "Runner" /\ ~running))
  /\ [][setStateCalls' # setStateCalls =>
          /\ memory # <<>> => memory'[1].state = memory[1].state
          /\ cleanUpCalls' # cleanUpCalls => forcedCleanUps' # forcedCleanUps
          /\ \/ /\ pc = "execute" /\ mainHookCalls' = mainHookCalls + 1
                /\ effectCalls' = effectCalls
             \/ /\ pc = "trigger" /\ effectCalls' = effectCalls + 1
                /\ mainHookCalls' = mainHookCalls
             \/ /\ pc = "idle" /\ pc' = "idle"
                /\ mainHookCalls' = mainHookCalls
                /\ effectCalls' = effectCalls
                /\ cleanUpCalls' = cleanUpCalls
                /\ results' = results /\ nextCalls' = nextCalls]_vars

\* A setState call between two tasks of a Runner, after the first result:
\* the change is pending, a macrotask is queued, nothing else has happened.
C33_Witness ==
  /\ mode = "Runner" /\ hook = "free" /\ pc = "idle" /\ ~running
  /\ mainHookCalls = 1 /\ results = <<0>> /\ setStateCalls = 1
  /\ memory[1].state = 0 /\ memory[1].stateChanges = <<Val(1)>>
  /\ macrotasks = 1 /\ effectCalls = 2 /\ cleanUpCalls = 0

\* An invocation loop of the instance is in flight: a task has begun and has
\* not ended.
InFlight == pc # "idle"

\* C34: a setState call of a Runner schedules no macrotask while the
\* invocation loop is in flight (in the body, in an effect) and one macrotask
\* when no loop is in flight (between two tasks); a loop begins only when
\* none is in flight.
C34_ScheduledUnlessInFlight ==
  [][mode = "Runner" =>
       /\ setStateCalls' # setStateCalls =>
            IF InFlight THEN macrotasks' = macrotasks
            ELSE macrotasks' = macrotasks + (setStateCalls' - setStateCalls)
       /\ (running' /\ ~running) => (~InFlight /\ InFlight')]_vars

\* C35: the instance is the active one only while the body of its main hook
\* runs: not while a result is delivered to the observers, not during the
\* clean-up and trigger phases, not while an error is handled and not between
\* two tasks; a hook called then is told that it is outside the body.
C35_ActiveOnlyInTheBody ==
  pc \in {"idle", "publish", "apply", "cleanup", "trigger", "loop", "catch",
          "error"}
    => (~active /\ getActive(active) = "OutsideOfHook")

\* C36: once an execution has completed (memoryAllocated is set, and stays
\* set), the memory keeps its shape: the number of cells and the kind of the
\* cell at each position are those of the moment the first execution
\* completed, whatever hook calls later executions make and however the
\* instance ends.
C36_MemoryKeepsItsShape ==
  /\ memoryAllocated => Kinds(memory) = allocated
  /\ ~memoryAllocated => (allocated = <<>> /\ mainHookCalls <= 1)
  /\ mainHookCalls >= 2 => memoryAllocated

\* The test 'error if the order of hook calls is changed': the second
\* execution called useState where the first had called useEffect.
C36_Witness ==
  /\ hook = "order" /\ RunnerSettled /\ promise = "rejected"
  /\ mainHookCalls = 2 /\ fatal = "OrderOfHookCalls"
  /\ Kinds(memory) = <<"StateMemoryCell", "EffectMemoryCell">>
  /\ memoryPointer = 1

\* C37: the runs of an effect function and the calls of the clean-up
\* functions it returned alternate: no clean-up function is called twice for
\* one run of its effect, and no effect function runs while its cell still
\* holds the clean-up function of the run before.
C37_EffectAndCleanUpAlternate ==
  alternation.twice = {} /\ alternation.held = {}

\* C38: an observer that has received error() or complete() from a Subject
\* receives no next() from it afterwards, also when a callback of the loop
\* that delivers a result calls complete().
C38_NoNextAfterTerminal == ~nextAfterError /\ ~nextAfterComplete

\* C39: an effect cell that is outdated holds the effect function and the
\* dependencies that the latest execution passed to its useEffect call,
\* whether or not the dependencies changed; only the trigger phase clears the
\* flag, by calling the effect function the cell holds, which is the one of
\* the latest execution, once per commit. In the test of the order of
\* setState, effect and cleanUpEffect the one-time effect2 runs with state 1.
LatestSupplied ==
  \A k \in Outdated(memory) :
    /\ k <= Len(supplied)
    /\ memory[k].effect = supplied[k].effect
    /\ memory[k].dependencies = supplied[k].dependencies

RanLatestOnce ==
  \A i \in 1..Len(commit.ran) :
    /\ commit.ran[i].effect = supplied[commit.ran[i].cell].effect
    /\ \A j \in 1..Len(commit.ran) :
         commit.ran[j].cell = commit.ran[i].cell => j = i
    /\ (hook = "worked" /\ mode = "Runner" /\ commit.ran[i].effect[1] = 2)
         => commit.ran[i].effect = <<2, 1>>

OnlyTriggerClears ==
  \A k \in Outdated(memory) :
    (k \in Outdated(memory') \/
       /\ pc = "trigger"
       /\ commit'.ran = Append(commit.ran, Ran(k, memory[k].effect)))

C39_OutdatedTakesLatest ==
  /\ [](LatestSupplied /\ RanLatestOnce)
  /\ [][OnlyTriggerClears]_vars

\* The first commit of that test: the second execution, which read state 1,
\* passed the one-time effect2 again with unchanged dependencies, and the
\* commit runs that one.
C39_Witness ==
  /\ hook = "worked" /\ mode = "Runner" /\ pc = "trigger" /\ idx = 4
  /\ mainHookCalls = 2 /\ valuesLog = <<0, 1>>
  /\ commit.ran = <<Ran(2, <<1, 1>>), Ran(3, <<2, 1>>)>>
  /\ supplied[3] = [effect |-> <<2, 1>>, dependencies |-> Deps(<<>>)]
  /\ memory[3].dependencies = Deps(<<>>) /\ ~memory[3].outdated

\* C40: applyStateChanges() reports a change exactly if some state change,
\* at the moment it was applied, replaced the state of its cell, also when a
\* later change of the batch put the former state back; after such a batch
\* the main hook is executed again, and run() forwards the result of that
\* execution, which read the state the execution before it read.
C40_ReplacedThenRestored ==
  /\ applied.changed <=> applied.replaced
  /\ ( /\ applied.restored /\ mainHookCalls = applied.at
        /\ fatal = NoError /\ (mode = "Subject" => observers.defined) )
       => pc = "execute"
  /\ ( /\ applied.restored /\ mainHookCalls = applied.at + 1
        /\ mode = "Runner" /\ fatal = NoError /\ value # Undefined )
       => /\ Len(results) = applied.results + 1
          /\ results[Len(results)] = value

\* A main hook that read state 0 and called setState(1) and setState(0) was
\* executed again and delivered its result again.
C40_Witness ==
  /\ mode = "Runner" /\ hook = "free" /\ pc = "apply"
  /\ applied = [replaced |-> TRUE, restored |-> TRUE, changed |-> TRUE,
                at |-> 1, results |-> 1]
  /\ mainHookCalls = 2 /\ setStateCalls = 2 /\ effectCalls = 0
  /\ results = <<0, 0>> /\ valuesLog = <<0, 0>> /\ memory[1].state = 0

====
